---- MODULE Spec2Model ----
(***************************************************************************)
(* Revenue tracking of a video platform: payment records (base.py,         *)
(* implementations.py), the in-memory repository with its channel, status  *)
(* and period indices (repository.py) and the revenue service that drives  *)
(* them (services.py).                                                     *)
(*                                                                         *)
(* Conventions.  A Python str is a sequence of one-character strings, so   *)
(* that len, strip, upper, slicing and the period regex are computed.      *)
(* An amount is a Python float; the amounts the program stores are the     *)
(* doubles nearest to a decimal with at most three digits after the point, *)
(* and such a float is held as its integer number of thousandths (50.0 is  *)
(* 50000, 0.01 is 10).  The arithmetic on them is the arithmetic of        *)
(* doubles, and a float that need not be such a decimal (an intermediate   *)
(* value, the breakdown of a report) is held as a double.  A payment object is identified by the     *)
(* position at which it was constructed; its payment_id (a fresh uuid4) is *)
(* that position.  The repository stores references: a record mutated      *)
(* through the service is the very object the repository holds.            *)
(* Wall-clock timestamps are not part of the state; updated_at is a logical *)
(* time and a log entry of a payment is the kind of its message.  The       *)
(* first part constructs the fields of a payment the repository and the     *)
(* service read, the later parts the payment objects in full.  An entry of  *)
(* the repository's audit log is its type, the operation and the id; a call *)
(* that would make the log longer than MaxAudit is not taken.  The alphabet *)
(* of the strings is ASCII.  Every call is one step, as in the              *)
(* single-threaded program, except in the concurrency part at the end,      *)
(* where a save and a delete run as two threads, one write per step.        *)
(***************************************************************************)
EXTENDS Integers, Sequences, FiniteSets, TLC

VARIABLES
    recs,           \* the payment objects constructed so far (the heap)
    storage,        \* InMemoryPaymentRepository._storage: its keys, in dict order
    channel_index,  \* InMemoryPaymentRepository._channel_index
    status_index,   \* InMemoryPaymentRepository._status_index
    period_index,   \* InMemoryPaymentRepository._period_index
    max_capacity,   \* InMemoryPaymentRepository._MAX_CAPACITY of the run
    audit_log,      \* InMemoryPaymentRepository._audit_log
    threads,        \* the two threads of the concurrency part: where each one is
    tier_dicts,     \* the dict objects passed as tier_breakdown that a payment holds
    last            \* the last call and how it ended

vars == <<recs, storage, channel_index, status_index, period_index, max_capacity,
          audit_log, threads, tier_dicts, last>>

\* No thread is running: every call runs to completion before the next one
\* (all parts but the concurrency part)
NoThreads == [pid |-> 0, save |-> "idle", delete |-> "idle", delete_call |-> 0,
              is_update |-> FALSE, save_exc |-> "none", delete_ret |-> FALSE,
              overlapped |-> FALSE, in_step |-> FALSE, save_bucket |-> "none"]

indices == <<channel_index, status_index, period_index>>

----------------------------------------------------------------------------
(* Bounds of the model *)

\* number of payment objects the callers construct
MaxRecs == 2

\* InMemoryPaymentRepository._MAX_CAPACITY is 10000 in the source; the model
\* runs the repository with every capacity from 1 to MaxCapacity, which the
\* objects of the model can fill
MaxCapacity == 2

\* longest id list handed to bulk_status_update
MaxBulk == 2

\* entries the audit log of a run holds
MaxAudit == 5

Ids == 1..MaxRecs

----------------------------------------------------------------------------
(* Python str operations on sequences of characters *)

LowerLetters == <<"a","b","c","d","e","f","g","h","i","j","k","l","m",
                  "n","o","p","q","r","s","t","u","v","w","x","y","z">>

UpperLetters == <<"A","B","C","D","E","F","G","H","I","J","K","L","M",
                  "N","O","P","Q","R","S","T","U","V","W","X","Y","Z">>

Digits == {"0","1","2","3","4","5","6","7","8","9"}

\* The characters str.strip() removes, of the ASCII alphabet of the model:
\* space, tab, newline, vertical tab, form feed, carriage return and the
\* separators 0x1c to 0x1f
Whitespace == {" ", "\t", "\n", "", "\f", "\r", "", "", "", ""}

UpperChar(c) ==
    IF \E i \in 1..Len(LowerLetters) : LowerLetters[i] = c
    THEN UpperLetters[CHOOSE i \in 1..Len(LowerLetters) : LowerLetters[i] = c]
    ELSE c

\* str.upper()
Upper(s) == [i \in 1..Len(s) |-> UpperChar(s[i])]

\* str.strip()
Strip(s) ==
    IF \A i \in 1..Len(s) : s[i] \in Whitespace
    THEN <<>>
    ELSE LET lo == CHOOSE i \in 1..Len(s) :
                       /\ s[i] \notin Whitespace
                       /\ \A j \in 1..(i-1) : s[j] \in Whitespace
             hi == CHOOSE i \in 1..Len(s) :
                       /\ s[i] \notin Whitespace
                       /\ \A j \in (i+1)..Len(s) : s[j] \in Whitespace
         IN  SubSeq(s, lo, hi)

\* s[:n]
Prefix(s, n) == SubSeq(s, 1, IF Len(s) < n THEN Len(s) ELSE n)

\* x in list
InSeq(x, s) == \E i \in 1..Len(s) : s[i] = x

\* list.remove(x): the first occurrence goes
RemoveFirst(s, x) ==
    LET k == CHOOSE i \in 1..Len(s) : s[i] = x /\ \A j \in 1..(i-1) : s[j] # x
    IN  SubSeq(s, 1, k-1) \o SubSeq(s, k+1, Len(s))

----------------------------------------------------------------------------
(* PaymentBase: construction and validation (base.py) *)

VALID_STATUSES ==
    <<"pending", "processing", "completed", "failed", "on_hold", "cancelled", "refunded">>

\* datetime.now().strftime("%Y-%m") of the run
CurrentPeriod == <<"2","0","2","6","-","1","0">>

\* re.match(r"^\d{4}-(0[1-9]|1[0-2])$", p_str): "$" also matches before one
\* trailing newline
PeriodMatches(p) ==
    LET q == IF Len(p) = 8 /\ p[8] = "\n" THEN SubSeq(p, 1, 7) ELSE p
    IN  /\ Len(q) = 7
        /\ \A i \in 1..4 : q[i] \in Digits
        /\ q[5] = "-"
        /\ \/ q[6] = "0" /\ q[7] \in (Digits \ {"0"})
           \/ q[6] = "1" /\ q[7] \in {"0", "1", "2"}

\* Outcome of a validation step: the value it returns, or the exception it raises
Ok(v) == [exc |-> "none", val |-> v]

Raise(e) == [exc |-> e, val |-> <<>>]

\* PaymentBase.add_log during __init__: self._logs exists only from line 27 on,
\* an earlier call ends in AttributeError
add_log_in_init(logsReady) == IF logsReady THEN "none" ELSE "AttributeError"

_validate_channel_format(c_id) ==
    IF c_id = <<>> \/ Len(Strip(c_id)) < 3 THEN Raise("ValueError") ELSE Ok(Strip(c_id))

_validate_amount_initial(val) ==
    IF val < 0 THEN Raise("ValueError") ELSE Ok(val)

_validate_currency_code(code, logsReady) ==
    IF Len(code) # 3
    THEN IF add_log_in_init(logsReady) # "none"
         THEN Raise(add_log_in_init(logsReady))
         ELSE Ok(IF code # <<>> THEN Upper(Prefix(code, 3)) ELSE <<"T","R","Y">>)
    ELSE Ok(Upper(code))

_validate_period_regex(p_str, logsReady) ==
    IF ~PeriodMatches(p_str)
    THEN IF add_log_in_init(logsReady) # "none"
         THEN Raise(add_log_in_init(logsReady))
         ELSE Ok(CurrentPeriod)
    ELSE Ok(p_str)

\* PaymentBase.__init__ as the three variants call it (status keeps its default):
\* the validations run in the order of lines 21-24, the first exception ends it
PaymentBaseInit(a) ==
    LET ch  == _validate_channel_format(a.channel_id)
        am  == _validate_amount_initial(a.amount)
        cu  == _validate_currency_code(a.currency, FALSE)
        pe  == _validate_period_regex(a.period, FALSE)
    IN  IF ch.exc # "none" THEN Raise(ch.exc)
        ELSE IF am.exc # "none" THEN Raise(am.exc)
        ELSE IF cu.exc # "none" THEN Raise(cu.exc)
        ELSE IF pe.exc # "none" THEN Raise(pe.exc)
        ELSE Ok([kind     |-> a.kind,
                 channel  |-> ch.val,
                 amount   |-> am.val,
                 currency |-> cu.val,
                 period   |-> pe.val,
                 status   |-> "pending"])

\* PaymentBase.is_payable
is_payable(r) == r.status \in {"pending", "on_hold"} /\ r.amount > 0

\* PaymentBase.status setter: the new status, or ValueError
SetStatus(r, new_status) ==
    IF ~InSeq(new_status, VALID_STATUSES)
    THEN Raise("ValueError")
    ELSE Ok([r EXCEPT !.status = new_status])

----------------------------------------------------------------------------
(* InMemoryPaymentRepository (repository.py).  The repository state is the    *)
(* record db = [storage, channel_index, status_index, period_index,           *)
(* max_capacity]; a defaultdict is a function whose domain is the set of keys *)
(* it holds.                                                                  *)

EmptyIndex == [k \in {} |-> <<>>]

\* dict.get(key, [])
IndexGet(index, key) == IF key \in DOMAIN index THEN index[key] ELSE <<>>

\* _update_indices appending without the test "not in"
IndexAdd_AlwaysAppends(index, key, pid) ==
    LET cur == IndexGet(index, key)
    IN  [k \in (DOMAIN index) \cup {key} |-> IF k = key THEN Append(cur, pid) ELSE index[k]]

\* One index of _update_indices: index[key] creates the bucket when it is
\* missing, the id is appended unless the bucket already holds it
IndexAdd(index, key, pid) ==
    LET cur == IndexGet(index, key)
        new == IF InSeq(pid, cur) THEN cur ELSE Append(cur, pid)
    IN  [k \in (DOMAIN index) \cup {key} |-> IF k = key THEN new ELSE index[k]]

\* InMemoryPaymentRepository._update_indices
_update_indices(db, pid, r) ==
    [db EXCEPT !.channel_index = IndexAdd(db.channel_index, r.channel, pid),
               !.status_index  = IndexAdd(db.status_index, r.status, pid),
               !.period_index  = IndexAdd(db.period_index, r.period, pid)]

\* _remove_from_index leaving the id in its bucket
_remove_from_index_KeepsId(index, key, pid) ==
    IF key \in DOMAIN index /\ index[key] = <<>>
    THEN [k \in (DOMAIN index) \ {key} |-> index[k]]
    ELSE index

\* InMemoryPaymentRepository._remove_from_index
_remove_from_index(index, key, pid) ==
    IF key \in DOMAIN index
    THEN LET l == IF InSeq(pid, index[key]) THEN RemoveFirst(index[key], pid)
                  ELSE index[key]
         IN  IF l = <<>>
             THEN [k \in (DOMAIN index) \ {key} |-> index[k]]
             ELSE [index EXCEPT ![key] = l]
    ELSE index

\* save with the capacity test off by one (> for >=)
save_CapacityOffByOne(db, pid, r) ==
    IF Len(db.storage) > db.max_capacity
    THEN [exc |-> "MemoryError", db |-> db]
    ELSE [exc |-> "none",
          db  |-> _update_indices(
                      [db EXCEPT !.storage = IF InSeq(pid, db.storage)
                                             THEN db.storage
                                             ELSE Append(db.storage, pid)],
                      pid, r)]

\* save testing the capacity only for an id that is not stored
save_UpdateBypassesCapacity(db, pid, r) ==
    IF ~InSeq(pid, db.storage) /\ Len(db.storage) >= db.max_capacity
    THEN [exc |-> "MemoryError", db |-> db]
    ELSE [exc |-> "none",
          db  |-> _update_indices(
                      [db EXCEPT !.storage = IF InSeq(pid, db.storage)
                                             THEN db.storage
                                             ELSE Append(db.storage, pid)],
                      pid, r)]

\* InMemoryPaymentRepository.save of the payment object pid, whose fields are r:
\* the exception it raises ("none" when it returns) and the repository after it
save(db, pid, r) ==
    IF Len(db.storage) >= db.max_capacity
    THEN [exc |-> "MemoryError", db |-> db]
    ELSE [exc |-> "none",
          db  |-> _update_indices(
                      [db EXCEPT !.storage = IF InSeq(pid, db.storage)
                                             THEN db.storage
                                             ELSE Append(db.storage, pid)],
                      pid, r)]

\* InMemoryPaymentRepository.delete: what it returns and the repository after it
delete(db, pid, R) ==
    IF InSeq(pid, db.storage)
    THEN LET r == R[pid]
         IN  [ret |-> TRUE,
              db  |-> [db EXCEPT
                       !.storage       = RemoveFirst(db.storage, pid),
                       !.channel_index = _remove_from_index(db.channel_index, r.channel, pid),
                       !.status_index  = _remove_from_index(db.status_index, r.status, pid),
                       !.period_index  = _remove_from_index(db.period_index, r.period, pid)]]
    ELSE [ret |-> FALSE, db |-> db]

\* InMemoryPaymentRepository.find_by_id: the id of the record found, 0 for None
find_by_id(db, pid) == IF InSeq(pid, db.storage) THEN pid ELSE 0

\* The finders without the test "pid in self._storage"
FilterStored_Unfiltered(db, ids) == ids

\* find_all_by_channel, find_by_status, find_by_period: the ids of the bucket
\* that are still keys of _storage, in bucket order
FilterStored(db, ids) == SelectSeq(ids, LAMBDA pid : InSeq(pid, db.storage))

find_all_by_channel(db, channel_id) == FilterStored(db, IndexGet(db.channel_index, channel_id))

find_by_status(db, status) == FilterStored(db, IndexGet(db.status_index, status))

find_by_period(db, period) == FilterStored(db, IndexGet(db.period_index, period))

\* InMemoryPaymentRepository.find_by_amount_range, in dict order
find_by_amount_range(db, R, min_amount, max_amount) ==
    SelectSeq(db.storage, LAMBDA pid : min_amount <= R[pid].amount /\ R[pid].amount <= max_amount)

\* InMemoryPaymentRepository.get_status_distribution: status -> len(bucket)
get_status_distribution(db) ==
    [s \in DOMAIN db.status_index |-> Len(db.status_index[s])]

VALID_CODES ==
    { <<"T","R","Y">>, <<"U","S","D">>, <<"E","U","R">>, <<"G","B","P">>,
      <<"J","P","Y">>, <<"C","A","D">>, <<"A","U","D">>, <<"C","N","Y">> }

\* validate_currency_code testing the shape of the code only
validate_currency_code_ShapeOnly(code) == Len(Strip(Upper(code))) = 3

\* InMemoryPaymentRepository.validate_currency_code
validate_currency_code(code) == Strip(Upper(code)) \in VALID_CODES

----------------------------------------------------------------------------
(* RevenueService (services.py).  A PaymentProcessResult is [success,         *)
(* transaction_id], transaction_id 0 standing for the empty string.  Every    *)
(* operation yields exc, the exception that leaves it ("none" when it         *)
(* returns).                                                                  *)

\* amount > 50000 sends simulate_payment_processing to manual review
MANUAL_REVIEW_LIMIT == 50000000

\* lower end of the range hold_low_payments asks for: 0.01
HOLD_MIN_AMOUNT == 10

\* default threshold of hold_low_payments: 100.0
HOLD_DEFAULT_THRESHOLD == 100000

PaymentProcessResult(success, transaction_id) ==
    [success |-> success, transaction_id |-> transaction_id]

\* create_payment_record without its except clauses for MemoryError and Exception
CreateCatches_ValueErrorOnly(exc) == exc = "ValueError"

\* The except clauses of create_payment_record: ValueError, MemoryError and
\* Exception, which every exception of the model is
CreateCatches(exc) == TRUE

\* create_payment_record reporting success although save raised
RevenueService_create_payment_record_IgnoresSaveError(db, pid, r) ==
    IF ~is_payable(r) \/ r.amount <= 0 \/ ~validate_currency_code(r.currency)
    THEN [res |-> PaymentProcessResult(FALSE, 0), db |-> db, exc |-> "none"]
    ELSE [res |-> PaymentProcessResult(TRUE, pid), db |-> save(db, pid, r).db, exc |-> "none"]

RevenueService_create_payment_record(db, pid, r) ==
    IF ~is_payable(r)
    THEN [res |-> PaymentProcessResult(FALSE, 0), db |-> db, exc |-> "none"]
    ELSE IF r.amount <= 0
    THEN [res |-> PaymentProcessResult(FALSE, 0), db |-> db, exc |-> "none"]
    ELSE IF ~validate_currency_code(r.currency)
    THEN [res |-> PaymentProcessResult(FALSE, 0), db |-> db, exc |-> "none"]
    ELSE LET s == save(db, pid, r)
         IN  IF s.exc = "none"
             THEN [res |-> PaymentProcessResult(TRUE, pid), db |-> s.db, exc |-> "none"]
             ELSE IF CreateCatches(s.exc)
             THEN [res |-> PaymentProcessResult(FALSE, 0), db |-> s.db, exc |-> "none"]
             ELSE [res |-> PaymentProcessResult(FALSE, 0), db |-> s.db, exc |-> s.exc]

\* simulate_payment_processing without its manual-review branch
SimulatedStatus_NoManualReview(r, is_success) ==
    IF is_success THEN "completed" ELSE "failed"

\* simulate_payment_processing taking the manual-review branch from 50000 on
SimulatedStatus_LimitInclusive(r, is_success) ==
    IF r.amount >= MANUAL_REVIEW_LIMIT /\ r.status # "processing" THEN "processing"
    ELSE IF is_success THEN "completed"
    ELSE "failed"

\* simulate_payment_processing sending a payment above the limit to manual
\* review whatever its status
SimulatedStatus_ReviewAgain(r, is_success) ==
    IF r.amount > MANUAL_REVIEW_LIMIT THEN "processing"
    ELSE IF is_success THEN "completed"
    ELSE "failed"

\* The status a call of simulate_payment_processing assigns to a stored record
\* that is not completed; is_success is the draw random.random() > 0.15
SimulatedStatus(r, is_success) ==
    IF r.amount > MANUAL_REVIEW_LIMIT /\ r.status # "processing" THEN "processing"
    ELSE IF is_success THEN "completed"
    ELSE "failed"

\* simulate_payment_processing without its test for a completed payment
RevenueService_simulate_payment_processing_NoCompletedTest(db, R, pid, is_success) ==
    IF find_by_id(db, pid) = 0
    THEN [res |-> PaymentProcessResult(FALSE, 0), R |-> R, exc |-> "none"]
    ELSE LET new == SimulatedStatus(R[pid], is_success)
             set == SetStatus(R[pid], new)
         IN  IF set.exc # "none"
             THEN [res |-> PaymentProcessResult(FALSE, 0), R |-> R, exc |-> set.exc]
             ELSE [res |-> PaymentProcessResult(new # "failed", pid),
                   R   |-> [R EXCEPT ![pid] = set.val],
                   exc |-> "none"]

RevenueService_simulate_payment_processing(db, R, pid, is_success) ==
    IF find_by_id(db, pid) = 0
    THEN [res |-> PaymentProcessResult(FALSE, 0), R |-> R, exc |-> "none"]
    ELSE IF R[pid].status = "completed"
    THEN [res |-> PaymentProcessResult(FALSE, pid), R |-> R, exc |-> "none"]
    ELSE LET new == SimulatedStatus(R[pid], is_success)
             set == SetStatus(R[pid], new)
         IN  IF set.exc # "none"
             THEN [res |-> PaymentProcessResult(FALSE, 0), R |-> R, exc |-> set.exc]
             ELSE [res |-> PaymentProcessResult(new # "failed", pid),
                   R   |-> [R EXCEPT ![pid] = set.val],
                   exc |-> "none"]

\* The loop of hold_low_payments over low_payments[k..]: the records and the
\* count after it
RECURSIVE HoldLoop(_, _, _, _)
HoldLoop(low, k, R, count) ==
    IF k > Len(low) THEN [R |-> R, count |-> count, exc |-> "none"]
    ELSE IF R[low[k]].status = "pending"
    THEN LET set == SetStatus(R[low[k]], "on_hold")
         IN  IF set.exc # "none"
             THEN [R |-> R, count |-> count, exc |-> set.exc]
             ELSE HoldLoop(low, k + 1, [R EXCEPT ![low[k]] = set.val], count + 1)
    ELSE HoldLoop(low, k + 1, R, count)

RevenueService_hold_low_payments(db, R, threshold) ==
    HoldLoop(find_by_amount_range(db, R, HOLD_MIN_AMOUNT, threshold), 1, R, 0)

\* bulk_status_update without its except clause
BulkCatches_Nothing(exc) == FALSE

\* The except clause of the loop of bulk_status_update
BulkCatches(exc) == exc = "ValueError"

\* The loop of bulk_status_update over payment_ids[k..]
RECURSIVE BulkLoop(_, _, _, _, _, _)
BulkLoop(db, payment_ids, new_status, k, R, success_count) ==
    IF k > Len(payment_ids) THEN [R |-> R, count |-> success_count, exc |-> "none"]
    ELSE IF find_by_id(db, payment_ids[k]) = 0
    THEN BulkLoop(db, payment_ids, new_status, k + 1, R, success_count)
    ELSE LET set == SetStatus(R[payment_ids[k]], new_status)
         IN  IF set.exc = "none"
             THEN BulkLoop(db, payment_ids, new_status, k + 1,
                           [R EXCEPT ![payment_ids[k]] = set.val], success_count + 1)
             ELSE IF BulkCatches(set.exc)
             THEN BulkLoop(db, payment_ids, new_status, k + 1, R, success_count)
             ELSE [R |-> R, count |-> success_count, exc |-> set.exc]

RevenueService_bulk_status_update(db, R, payment_ids, new_status) ==
    BulkLoop(db, payment_ids, new_status, 1, R, 0)

----------------------------------------------------------------------------
(* The audit log of the repository: the entries save, delete and find_by_id  *)
(* append, and get_audit_logs.                                              *)

\* InMemoryPaymentRepository._log_operation: the entry is its type and, for a
\* record operation, what was done to which id
_log_operation(log, op_type, operation, pid) ==
    Append(log, [op_type |-> op_type, operation |-> operation, pid |-> pid])

\* The audit log after save(payment) on the repository db
save_log(db, log, pid) ==
    IF Len(db.storage) >= db.max_capacity
    THEN _log_operation(log, "ERROR", "capacity", 0)
    ELSE _log_operation(log, "INFO", IF InSeq(pid, db.storage) THEN "UPDATE" ELSE "INSERT", pid)

\* The audit log after delete(payment_id)
delete_log(db, log, pid) ==
    IF InSeq(pid, db.storage) THEN _log_operation(log, "DELETE", "DELETE", pid) ELSE log

\* The audit log after find_by_id(payment_id)
find_by_id_log(db, log, pid) ==
    IF find_by_id(db, pid) # 0 THEN _log_operation(log, "READ", "READ", pid) ELSE log

\* InMemoryPaymentRepository.get_audit_logs: the slice self._audit_log[-limit:]
get_audit_logs(log, limit) ==
    IF limit = 0 THEN log
    ELSE IF limit > 0
    THEN SubSeq(log, IF Len(log) > limit THEN Len(log) - limit + 1 ELSE 1, Len(log))
    ELSE SubSeq(log, 1 - limit, Len(log))

\* The audit log after create_payment_record(payment): the entry of save, when
\* the call gets as far as save
create_payment_record_log(db, log, pid, r) ==
    IF is_payable(r) /\ r.amount > 0 /\ validate_currency_code(r.currency)
    THEN save_log(db, log, pid)
    ELSE log

\* The audit log after the loop of bulk_status_update over payment_ids[k..]:
\* find_by_id logs every id it finds, until an exception leaves the loop
RECURSIVE BulkLoopLog(_, _, _, _, _)
BulkLoopLog(db, payment_ids, new_status, k, log) ==
    IF k > Len(payment_ids) THEN log
    ELSE IF find_by_id(db, payment_ids[k]) = 0
    THEN BulkLoopLog(db, payment_ids, new_status, k + 1, log)
    ELSE IF ~InSeq(new_status, VALID_STATUSES) /\ ~BulkCatches("ValueError")
    THEN find_by_id_log(db, log, payment_ids[k])
    ELSE BulkLoopLog(db, payment_ids, new_status, k + 1,
                     find_by_id_log(db, log, payment_ids[k]))

\* The log has room for the entries of a call
AuditRoom(log) == Len(log) <= MaxAudit

----------------------------------------------------------------------------
(* Inputs of the model *)

ChA == <<"c","h","A">>

\* " chB\r": str.strip() removes the space and the carriage return
ChBPadded == <<" ","c","h","B","\r">>

ChShort == <<"a","b">>

TRY == <<"T","R","Y">>

UsdLower == <<"u","s","d">>

Xyz == <<"X","Y","Z">>

TwoLetter == <<"U","S">>

Jan == <<"2","0","2","5","-","0","1">>

Feb == <<"2","0","2","5","-","0","2">>

Month13 == <<"2","0","2","5","-","1","3">>

\* Constructor calls of the callers: the variant and the PaymentBase arguments.
\* The first three construct a record (payable; amount 0; a currency the
\* repository does not support), the others end in an exception
CtorInputs ==
    { [kind |-> "AdRevenue",   channel_id |-> ChA,       amount |-> 50000,
       currency |-> UsdLower,  period |-> Jan],
      [kind |-> "Membership",  channel_id |-> ChBPadded, amount |-> 0,
       currency |-> TRY,       period |-> Jan],
      [kind |-> "Sponsorship", channel_id |-> ChBPadded, amount |-> 200000,
       currency |-> Xyz,       period |-> Feb],
      [kind |-> "Sponsorship", channel_id |-> ChShort,   amount |-> 50000,
       currency |-> TRY,       period |-> Jan],
      [kind |-> "Membership",  channel_id |-> ChA,       amount |-> -1000,
       currency |-> TRY,       period |-> Jan],
      [kind |-> "AdRevenue",   channel_id |-> ChA,       amount |-> 50000,
       currency |-> TwoLetter, period |-> Jan],
      [kind |-> "Sponsorship", channel_id |-> ChA,       amount |-> 50000,
       currency |-> TRY,       period |-> Month13] }

\* Statuses handed to bulk_status_update; the last is no status
BulkStatusInputs == {"pending", "archived"}

\* Id lists handed to bulk_status_update
BulkIdInputs == UNION { [1..n -> Ids] : n \in 1..MaxBulk }

HoldThresholdInputs == {HOLD_DEFAULT_THRESHOLD}

----------------------------------------------------------------------------
(* State machine *)

DB == [storage       |-> storage,
       channel_index |-> channel_index,
       status_index  |-> status_index,
       period_index  |-> period_index,
       max_capacity  |-> max_capacity]

\* The repository variables take the value d
SetDB(d) ==
    /\ storage' = d.storage
    /\ channel_index' = d.channel_index
    /\ status_index' = d.status_index
    /\ period_index' = d.period_index
    /\ max_capacity' = d.max_capacity

\* What `last` records of a call: the operation, the payment id it was given
\* (0 when it takes none), whether it reported success, the id its Result
\* carries (0 for none), the count it returned, the exception that left it
Called(op, pid, ok, txid, ret, exc) ==
    [op |-> op, pid |-> pid, ok |-> ok, txid |-> txid, ret |-> ret, exc |-> exc]

Init ==
    /\ recs = <<>>
    /\ storage = <<>>
    /\ channel_index = EmptyIndex
    /\ status_index = EmptyIndex
    /\ period_index = EmptyIndex
    /\ max_capacity \in 1..MaxCapacity
    /\ audit_log = <<>>
    /\ threads = NoThreads
    /\ tier_dicts = <<>>
    /\ last = Called("init", 0, TRUE, 0, 0, "none")

\* A caller constructs a payment object
Construct(a) ==
    /\ Len(recs) < MaxRecs
    /\ LET c == PaymentBaseInit(a)
       IN  /\ recs' = IF c.exc = "none" THEN Append(recs, c.val) ELSE recs
           /\ last' = Called("construct", IF c.exc = "none" THEN Len(recs) + 1 ELSE 0,
                             c.exc = "none", 0, 0, c.exc)
    /\ UNCHANGED <<storage, indices, max_capacity, audit_log, threads, tier_dicts>>

\* repo.save(payment) on a constructed object
Save(pid) ==
    /\ pid \in 1..Len(recs)
    /\ AuditRoom(save_log(DB, audit_log, pid))
    /\ LET s == save(DB, pid, recs[pid])
       IN  /\ SetDB(s.db)
           /\ audit_log' = save_log(DB, audit_log, pid)
           /\ last' = Called("save", pid, s.exc = "none", 0, 0, s.exc)
    /\ UNCHANGED <<recs, threads, tier_dicts>>

\* repo.delete(payment_id), for any id
Delete(pid) ==
    /\ AuditRoom(delete_log(DB, audit_log, pid))
    /\ LET d == delete(DB, pid, recs)
       IN  /\ SetDB(d.db)
           /\ audit_log' = delete_log(DB, audit_log, pid)
           /\ last' = Called("delete", pid, d.ret, 0, 0, "none")
    /\ UNCHANGED <<recs, threads, tier_dicts>>

\* service.create_payment_record(payment) on a constructed object
CreatePaymentRecord(pid) ==
    /\ pid \in 1..Len(recs)
    /\ AuditRoom(create_payment_record_log(DB, audit_log, pid, recs[pid]))
    /\ LET c == RevenueService_create_payment_record(DB, pid, recs[pid])
       IN  /\ SetDB(c.db)
           /\ audit_log' = create_payment_record_log(DB, audit_log, pid, recs[pid])
           /\ last' = Called("create", pid, c.res.success, c.res.transaction_id, 0, c.exc)
    /\ UNCHANGED <<recs, threads, tier_dicts>>

\* service.simulate_payment_processing(payment_id), for any id and either draw
SimulatePaymentProcessing(pid, is_success) ==
    /\ AuditRoom(find_by_id_log(DB, audit_log, pid))
    /\ LET r == RevenueService_simulate_payment_processing(DB, recs, pid, is_success)
       IN  /\ recs' = r.R
           /\ audit_log' = find_by_id_log(DB, audit_log, pid)
           /\ last' = Called("simulate", pid, r.res.success, r.res.transaction_id, 0, r.exc)
    /\ UNCHANGED <<storage, indices, max_capacity, threads, tier_dicts>>

\* service.hold_low_payments(threshold)
HoldLowPayments(threshold) ==
    /\ LET h == RevenueService_hold_low_payments(DB, recs, threshold)
       IN  /\ recs' = h.R
           /\ last' = Called("hold", 0, h.exc = "none", 0, h.count, h.exc)
    /\ UNCHANGED <<storage, indices, max_capacity, audit_log, threads, tier_dicts>>

\* service.bulk_status_update(payment_ids, new_status)
BulkStatusUpdate(payment_ids, new_status) ==
    /\ AuditRoom(BulkLoopLog(DB, payment_ids, new_status, 1, audit_log))
    /\ LET b == RevenueService_bulk_status_update(DB, recs, payment_ids, new_status)
       IN  /\ recs' = b.R
           /\ audit_log' = BulkLoopLog(DB, payment_ids, new_status, 1, audit_log)
           /\ last' = Called("bulk", 0, b.exc = "none", 0, b.count, b.exc)
    /\ UNCHANGED <<storage, indices, max_capacity, threads, tier_dicts>>

Next ==
    \/ \E a \in CtorInputs : Construct(a)
    \/ \E pid \in Ids : Save(pid)
    \/ \E pid \in Ids : Delete(pid)
    \/ \E pid \in Ids : CreatePaymentRecord(pid)
    \/ \E pid \in Ids, is_success \in BOOLEAN : SimulatePaymentProcessing(pid, is_success)
    \/ \E threshold \in HoldThresholdInputs : HoldLowPayments(threshold)
    \/ \E payment_ids \in BulkIdInputs, new_status \in BulkStatusInputs :
           BulkStatusUpdate(payment_ids, new_status)

Spec == Init /\ [][Next]_vars

----------------------------------------------------------------------------
(* Vocabulary of the properties *)

StoredIds == { storage[i] : i \in 1..Len(storage) }

\* The keys of an index whose bucket holds the id
BucketsOf(index, pid) == { k \in DOMAIN index : InSeq(pid, index[k]) }

ElemsOf(seq) == { seq[i] : i \in 1..Len(seq) }

StatusKeys == ElemsOf(VALID_STATUSES) \cup DOMAIN status_index

ChannelKeys == { recs[i].channel : i \in 1..Len(recs) } \cup DOMAIN channel_index

PeriodKeys == { recs[i].period : i \in 1..Len(recs) } \cup DOMAIN period_index

\* The stored records whose current status is s
StoredWithStatus(s) == { pid \in StoredIds : recs[pid].status = s }

----------------------------------------------------------------------------
(* Index coherence *)

\* C1: in every reachable state, for every stored record and every key of the
\* channel, status and period index, the id is in index[key] exactly when the
\* record's current channel, status or period is that key.
C1_IndexCoherence ==
    \A pid \in StoredIds :
        /\ BucketsOf(channel_index, pid) = {recs[pid].channel}
        /\ BucketsOf(status_index, pid) = {recs[pid].status}
        /\ BucketsOf(period_index, pid) = {recs[pid].period}

\* C2: a successful save of an id that is already stored and whose status is
\* not the one it was indexed under (its current status bucket does not hold
\* it yet) leaves the id in exactly one status bucket, that of its current
\* status.
C2_UpdateRemovesStaleStatus ==
    [][ ( /\ last'.op = "save"
          /\ last'.ok
          /\ InSeq(last'.pid, storage)
          /\ ~InSeq(last'.pid, IndexGet(status_index, recs[last'.pid].status)) )
        => BucketsOf(status_index', last'.pid) = {recs'[last'.pid].status} ]_vars

\* C3: after delete(id) has returned true, no bucket of the channel, status or
\* period index holds the id.
C3_DeleteClearsEveryIndex ==
    (last.op = "delete" /\ last.ok)
        => /\ BucketsOf(channel_index, last.pid) = {}
           /\ BucketsOf(status_index, last.pid) = {}
           /\ BucketsOf(period_index, last.pid) = {}

\* C4: delete(id) returns true exactly when the id was stored; after it
\* find_by_id, find_all_by_channel, find_by_status and find_by_period return
\* the record for no key; a second delete of the same id returns false and
\* changes nothing.
C4_DeleteHidesRecord ==
    [][ /\ last'.op = "delete"
            => /\ last'.ok <=> InSeq(last'.pid, storage)
               /\ find_by_id(DB', last'.pid) = 0
               /\ \A k \in ChannelKeys' : ~InSeq(last'.pid, find_all_by_channel(DB', k))
               /\ \A k \in StatusKeys' : ~InSeq(last'.pid, find_by_status(DB', k))
               /\ \A k \in PeriodKeys' : ~InSeq(last'.pid, find_by_period(DB', k))
        /\ (last.op = "delete" /\ last'.op = "delete" /\ last'.pid = last.pid)
            => /\ ~last'.ok
               /\ UNCHANGED <<recs, storage, indices>> ]_vars

\* Witness of C4: a delete returned true while a bucket of the status index
\* still names the deleted id
C4_Witness ==
    /\ last.op = "delete"
    /\ last.ok
    /\ BucketsOf(status_index, last.pid) # {}

\* C5: find_by_status(s) returns exactly the stored records whose current
\* status is s.
C5_FindByStatusExact ==
    \A s \in StatusKeys : ElemsOf(find_by_status(DB, s)) = StoredWithStatus(s)

\* C6: get_status_distribution maps each status to the number of stored
\* records currently in that status, so the counts sum to the number of stored
\* records and the count of "failed" is the number of failed records.
C6_StatusDistributionExact ==
    LET dist == get_status_distribution(DB)
    IN  /\ \A s \in DOMAIN dist : dist[s] = Cardinality(StoredWithStatus(s))
        /\ \A s \in StatusKeys : StoredWithStatus(s) # {} => s \in DOMAIN dist

----------------------------------------------------------------------------
(* Capacity and create_payment_record *)

\* C7: a save of an id that is not stored, into a repository that holds the
\* capacity number of records, raises CapacityExceeded (MemoryError) and
\* leaves the stored records and the three indices unchanged; the number of
\* stored records never exceeds the capacity.
C7_CapacityEnforced ==
    [][ /\ Len(storage) <= max_capacity
        /\ Len(storage') <= max_capacity'
        /\ ( /\ last'.op = "save"
             /\ ~InSeq(last'.pid, storage)
             /\ Len(storage) >= max_capacity )
            => /\ last'.exc = "MemoryError"
               /\ UNCHANGED <<recs, storage, indices>> ]_vars

\* Witness of C7: a save of a new id was refused by a full repository
C7_Witness ==
    /\ last.op = "save"
    /\ last.exc = "MemoryError"
    /\ ~InSeq(last.pid, storage)
    /\ Len(storage) = max_capacity

\* C8: when create_payment_record reports success, its Result carries the id
\* of the record, and find_by_id of that id returns a record with the id, the
\* amount and the currency of the record handed in.
C8_CreateThenFind ==
    [][ (last'.op = "create" /\ last'.ok)
        => LET found == find_by_id(DB', last'.txid)
           IN  /\ last'.txid = last'.pid
               /\ found = last'.pid
               /\ recs'[found].amount = recs[last'.pid].amount
               /\ recs'[found].currency = recs[last'.pid].currency ]_vars

\* Witness of C8: a successful create into a repository that then holds two records
C8_Witness ==
    /\ last.op = "create"
    /\ last.ok
    /\ last.txid \in StoredIds
    /\ Len(storage) = 2

\* C9: create_payment_record fails exactly when the record is not payable
\* (status outside {pending, on_hold}, or amount not > 0), or its currency is
\* no supported code, or the repository is at capacity; when it fails, the
\* stored records and the three indices are unchanged and the Result carries
\* no id.
C9_CreateFailsExactly ==
    [][ last'.op = "create"
        => LET r == recs[last'.pid]
           IN  /\ ~last'.ok <=> \/ r.status \notin {"pending", "on_hold"}
                                \/ ~(r.amount > 0)
                                \/ r.currency \notin VALID_CODES
                                \/ Len(storage) >= max_capacity
               /\ ~last'.ok => /\ UNCHANGED <<recs, storage, indices>>
                               /\ last'.txid = 0 ]_vars

\* Witness of C9: a create failed for the currency alone
C9_Witness ==
    /\ last.op = "create"
    /\ ~last.ok
    /\ is_payable(recs[last.pid])
    /\ recs[last.pid].currency \notin VALID_CODES
    /\ Len(storage) < max_capacity

\* C10: create_payment_record, simulate_payment_processing, hold_low_payments
\* and bulk_status_update end by returning, never by raising.
C10_NoExceptionEscapes ==
    last.op \in {"create", "simulate", "hold", "bulk"} => last.exc = "none"

\* Witness of C10: a create of a payable record with a supported currency
\* returned a failed Result, the repository being full
C10_Witness ==
    /\ last.op = "create"
    /\ ~last.ok
    /\ last.exc = "none"
    /\ is_payable(recs[last.pid])
    /\ validate_currency_code(recs[last.pid].currency)
    /\ Len(storage) >= max_capacity

----------------------------------------------------------------------------
(* Python float arithmetic.  A float is an IEEE 754 double: a sign and a      *)
(* natural number m of exactly 53 bits scaled by a power of two, m * 2^e, or  *)
(* zero.  m is held as a sequence of 14-bit limbs, the least significant      *)
(* first, because a product of two mantissas has 106 bits.  Every operation   *)
(* computes the exact result and rounds it to the nearest double, ties to the *)
(* even mantissa, as the hardware does.  Subnormal numbers, infinities and    *)
(* NaN are left out: the amounts of the program are far from them.            *)

\* bits of a limb
LIMB_BITS == 14

\* 2^LIMB_BITS
LIMB_BASE == 16384

\* bits of the mantissa of a double
MANT_BITS == 53

\* 2^n for n in 0..30
Pow2(n) == 2^n

RECURSIVE BitLenInt(_)
\* int.bit_length() of n >= 0
BitLenInt(n) == IF n = 0 THEN 0 ELSE 1 + BitLenInt(n \div 2)

RECURSIVE BNorm(_)
\* a without its leading zero limbs
BNorm(a) ==
    IF a # <<>> /\ a[Len(a)] = 0 THEN BNorm(SubSeq(a, 1, Len(a) - 1)) ELSE a

RECURSIVE BFromInt(_)
\* the limbs of n >= 0
BFromInt(n) == IF n = 0 THEN <<>> ELSE <<n % LIMB_BASE>> \o BFromInt(n \div LIMB_BASE)

RECURSIVE BToInt(_)
\* the number of the limbs a
BToInt(a) == IF a = <<>> THEN 0 ELSE Head(a) + LIMB_BASE * BToInt(Tail(a))

\* limb i of a, 0 beyond its length
Limb(a, i) == IF i <= Len(a) THEN a[i] ELSE 0

RECURSIVE BAddFrom(_, _, _, _)
BAddFrom(a, b, i, carry) ==
    IF i > Len(a) /\ i > Len(b)
    THEN IF carry = 0 THEN <<>> ELSE <<carry>>
    ELSE LET s == Limb(a, i) + Limb(b, i) + carry
         IN  <<s % LIMB_BASE>> \o BAddFrom(a, b, i + 1, s \div LIMB_BASE)

\* a + b
BAdd(a, b) == BAddFrom(a, b, 1, 0)

RECURSIVE BSubFrom(_, _, _, _)
BSubFrom(a, b, i, borrow) ==
    IF i > Len(a) THEN <<>>
    ELSE LET d == a[i] - Limb(b, i) - borrow
         IN  <<IF d < 0 THEN d + LIMB_BASE ELSE d>>
                 \o BSubFrom(a, b, i + 1, IF d < 0 THEN 1 ELSE 0)

\* a - b for a >= b
BSub(a, b) == BNorm(BSubFrom(a, b, 1, 0))

RECURSIVE BCmpFrom(_, _, _)
BCmpFrom(a, b, i) ==
    IF i = 0 THEN 0
    ELSE IF a[i] > b[i] THEN 1
    ELSE IF a[i] < b[i] THEN -1
    ELSE BCmpFrom(a, b, i - 1)

\* 1, 0 or -1 as a is above, equal to or below b
BCmp(a, b) ==
    IF Len(a) > Len(b) THEN 1
    ELSE IF Len(a) < Len(b) THEN -1
    ELSE BCmpFrom(a, b, Len(a))

RECURSIVE BMulSmallFrom(_, _, _, _)
BMulSmallFrom(a, k, i, carry) ==
    IF i > Len(a)
    THEN IF carry = 0 THEN <<>> ELSE <<carry>>
    ELSE LET p == a[i] * k + carry
         IN  <<p % LIMB_BASE>> \o BMulSmallFrom(a, k, i + 1, p \div LIMB_BASE)

\* a * k for 0 <= k < LIMB_BASE
BMulSmall(a, k) == IF k = 0 THEN <<>> ELSE BMulSmallFrom(a, k, 1, 0)

RECURSIVE BMulColumn(_, _, _, _)
\* the sum of the products a[j] * b[k - j] for j from i on
BMulColumn(a, b, k, i) ==
    IF i > Len(a) \/ i >= k THEN 0
    ELSE a[i] * b[k - i] + BMulColumn(a, b, k, i + 1)

RECURSIVE BMulFrom(_, _, _, _)
BMulFrom(a, b, k, carry) ==
    IF k > Len(a) + Len(b)
    THEN IF carry = 0 THEN <<>> ELSE <<carry>>
    ELSE LET first == IF k - Len(b) > 1 THEN k - Len(b) ELSE 1
             c     == BMulColumn(a, b, k, first) + carry
         IN  <<c % LIMB_BASE>> \o BMulFrom(a, b, k + 1, c \div LIMB_BASE)

\* a * b, for a and b of at most 7 limbs (two mantissas)
BMul(a, b) == BNorm(BMulFrom(a, b, 2, 0))

RECURSIVE BDivSmallFrom(_, _, _, _)
BDivSmallFrom(a, d, i, rem) ==
    IF i = 0 THEN [q |-> <<>>, r |-> rem]
    ELSE LET cur  == rem * LIMB_BASE + a[i]
             rest == BDivSmallFrom(a, d, i - 1, cur % d)
         IN  [q |-> Append(rest.q, cur \div d), r |-> rest.r]

\* divmod(a, d) for 0 < d < 2^17
BDivSmall(a, d) ==
    LET x == BDivSmallFrom(a, d, Len(a), 0)
    IN  [q |-> BNorm(x.q), r |-> x.r]

\* a << s
BShiftLeft(a, s) ==
    IF a = <<>> THEN <<>>
    ELSE [i \in 1..(s \div LIMB_BITS) |-> 0] \o BMulSmall(a, Pow2(s % LIMB_BITS))

\* 1, 0 or -1 as x is above, equal to or below y
Cmp(x, y) == IF x > y THEN 1 ELSE IF x < y THEN -1 ELSE 0

\* The bits shifted out compared with half a unit: c compares their leading
\* part, the limbs a[1..m] lie below it
BHalf(a, m, c) ==
    IF c = 0 /\ (\E i \in 1..m : Limb(a, i) # 0) THEN 1 ELSE c

\* a >> (n limbs and t bits), given x = divmod(a >> n limbs, 2^t): the
\* leading part of the bits shifted out is x.r, or limb n when t = 0
BShiftRightOf(a, n, t, x) ==
    [q    |-> x.q,
     half |-> BHalf(a, IF t > 0 THEN n ELSE n - 1,
                    Cmp(IF t > 0 THEN x.r ELSE Limb(a, n),
                        IF t > 0 THEN Pow2(t - 1) ELSE LIMB_BASE \div 2))]

BShiftRightBy(a, n, t) ==
    BShiftRightOf(a, n, t,
                  BDivSmall(IF n >= Len(a) THEN <<>> ELSE SubSeq(a, n + 1, Len(a)),
                            Pow2(t)))

\* a >> s for s > 0, and the bits shifted out compared with half a unit of
\* the result: 1, 0 or -1 as they are above, equal to or below it
BShiftRight(a, s) ==
    BShiftRightBy(a, s \div LIMB_BITS, s % LIMB_BITS)

\* a.bit_length()
BBitLen(a) ==
    IF a = <<>> THEN 0 ELSE LIMB_BITS * (Len(a) - 1) + BitLenInt(a[Len(a)])

\* a is odd
BOdd(a) == a # <<>> /\ a[1] % 2 = 1

\* The shifted number g.q rounded: up when the bits shifted out are above
\* half a unit, or equal to it and the number is a little above (sticky) or
\* g.q is odd
BRoundHalf(g, sticky) ==
    IF g.half > 0 \/ (g.half = 0 /\ (sticky \/ BOdd(g.q)))
    THEN BAdd(g.q, <<1>>)
    ELSE g.q

\* a rounded to the nearest integer multiple of 2^s, in units of 2^s: ties go
\* to the even one; sticky says that the number is a little above a
BRoundShift(a, s, sticky) ==
    IF s = 0 THEN a ELSE BRoundHalf(BShiftRight(a, s), sticky)

\* 0.0
FZero == [neg |-> FALSE, m |-> <<>>, e |-> 0]

\* The double of the rounded mantissa h * 2^e: rounding up may have given
\* 2^53, which is 2^52 * 2
FPack(neg, h, e) ==
    IF BBitLen(h) > MANT_BITS
    THEN [neg |-> neg, m |-> BDivSmall(h, 2).q, e |-> e + 1]
    ELSE [neg |-> neg, m |-> h, e |-> e]

\* FRound for M # 0 of L bits: M is shifted left to 53 bits, or rounded to
\* its 53 leading bits
FRoundBits(neg, M, e, sticky, L) ==
    IF L <= MANT_BITS
    THEN [neg |-> neg, m |-> BShiftLeft(M, MANT_BITS - L), e |-> e - (MANT_BITS - L)]
    ELSE FPack(neg, BRoundShift(M, L - MANT_BITS, sticky), e + (L - MANT_BITS))

\* The double nearest to (-1)^neg * (M + t) * 2^e, where 0 < t < 1 when
\* sticky and t = 0 otherwise; with sticky, M has 55 bits or more
FRound(neg, M, e, sticky) ==
    IF M = <<>> THEN FZero ELSE FRoundBits(neg, M, e, sticky, BBitLen(M))

\* The double of the quotient x.q * 2^(-s) with remainder x.r
FQuotient(neg, x, s) == FRound(neg, x.q, -s, x.r # 0)

\* n / d of two ints, 0 < d < 2^17 (Python's true division); also the float
\* of the decimal literal n / d
FDivInt(n, d) ==
    IF n = 0 THEN FZero
    ELSE LET a == IF n < 0 THEN -n ELSE n
             s == MANT_BITS + 2 + BitLenInt(d) - BitLenInt(a)
         IN  FQuotient(n < 0, BDivSmall(BShiftLeft(BFromInt(a), s), d), s)

\* x / d of a float and an int, 0 < d < 2^17
FDiv(x, d) ==
    IF x.m = <<>> THEN FZero
    ELSE FQuotient(x.neg, BDivSmall(BShiftLeft(x.m, 2 + BitLenInt(d)), d),
                   2 + BitLenInt(d) - x.e)

\* float(n) of an int
FFromInt(n) == FRound(n < 0, BFromInt(IF n < 0 THEN -n ELSE n), 0, FALSE)

\* 1.0
FOne == FFromInt(1)

\* -x
FNeg(x) == IF x.m = <<>> THEN x ELSE [x EXCEPT !.neg = ~@]

\* x * y
FMul(x, y) ==
    IF x.m = <<>> \/ y.m = <<>> THEN FZero
    ELSE FRound(x.neg # y.neg, BMul(x.m, y.m), x.e + y.e, FALSE)

\* (-1)^xneg * X + (-1)^yneg * Y, in units of 2^e; c compares X with Y
FAddAligned(xneg, yneg, X, Y, e, c) ==
    IF xneg # yneg /\ c = 0 THEN FZero
    ELSE FRound(IF xneg = yneg \/ c > 0 THEN xneg ELSE yneg,
                IF xneg = yneg THEN BAdd(X, Y)
                ELSE IF c > 0 THEN BSub(X, Y) ELSE BSub(Y, X),
                e, FALSE)

\* (-1)^xneg * X + (-1)^yneg * Y, in units of 2^e
FAddMantissas(xneg, yneg, X, Y, e) == FAddAligned(xneg, yneg, X, Y, e, BCmp(X, Y))

\* x + y for x, y # 0, with both mantissas brought to the smaller exponent e
FAddAt(x, y, e) ==
    FAddMantissas(x.neg, y.neg, BShiftLeft(x.m, x.e - e), BShiftLeft(y.m, y.e - e), e)

\* x + y
FAdd(x, y) ==
    IF x.m = <<>> THEN y
    ELSE IF y.m = <<>> THEN x
    ELSE FAddAt(x, y, IF x.e < y.e THEN x.e ELSE y.e)

\* x - y
FSub(x, y) == FAdd(x, FNeg(y))

\* The float of an amount held in thousandths: the double nearest to n / 1000
FromThousandths(n) == FDivInt(n, 1000)

\* round(x, 2), in thousandths: the multiple of 0.01 nearest to the exact
\* value of the double x, ties (which need x to be a multiple of 1/8) to the
\* even one
Round2(x) ==
    IF x.m = <<>> THEN 0
    ELSE LET N == BMulSmall(x.m, 100)
             H == IF x.e >= 0 THEN BShiftLeft(N, x.e) ELSE BRoundShift(N, -x.e, FALSE)
         IN  (IF x.neg THEN -10 ELSE 10) * BToInt(H)

\* int(x): x truncated towards zero
FTrunc(x) ==
    IF x.m = <<>> THEN 0
    ELSE (IF x.neg THEN -1 ELSE 1)
             * BToInt(IF x.e >= 0 THEN BShiftLeft(x.m, x.e) ELSE BShiftRight(x.m, -x.e).q)

RECURSIVE FSumFrom(_, _, _)
FSumFrom(values, i, acc) ==
    IF i > Len(values) THEN acc ELSE FSumFrom(values, i + 1, FAdd(acc, values[i]))

\* sum(values) of floats, added from the left
FSum(values) == FSumFrom(values, 1, FZero)

----------------------------------------------------------------------------
(* The payment object in full (base.py, implementations.py): next to the      *)
(* fields above it carries priority_level, logs and updated_at.  A log entry  *)
(* is the kind of its message.  updated_at is a logical time: the number of   *)
(* assignments made to it since construction.                                 *)

\* _calculate_initial_priority: amount > 100000, > 10000, > 1000
PRIORITY_LIMIT_1 == 100000000

PRIORITY_LIMIT_2 == 10000000

PRIORITY_LIMIT_3 == 1000000

\* amount setter: value > 50000 is logged and sets priority 1
HIGH_AMOUNT_LIMIT == 50000000

\* AdRevenuePayment._bonus_esigi
BONUS_THRESHOLD == 1000000

\* PaymentBase._calculate_initial_priority
_calculate_initial_priority(amount) ==
    IF amount > PRIORITY_LIMIT_1 THEN 1
    ELSE IF amount > PRIORITY_LIMIT_2 THEN 2
    ELSE IF amount > PRIORITY_LIMIT_3 THEN 3
    ELSE 4

\* PaymentBase.__init__ from line 27 on, after the validations
PaymentBaseInitFull(a) ==
    LET b == PaymentBaseInit(a)
    IN  IF b.exc # "none" THEN b
        ELSE Ok([kind           |-> b.val.kind,
                 channel        |-> b.val.channel,
                 amount         |-> b.val.amount,
                 currency       |-> b.val.currency,
                 period         |-> b.val.period,
                 status         |-> b.val.status,
                 priority_level |-> _calculate_initial_priority(b.val.amount),
                 logs           |-> <<"created", "initial_amount">>,
                 updated_at     |-> 0])

\* AdRevenuePayment._vergi_orani
_vergi_orani == FDivInt(18, 100)

\* AdRevenuePayment._gecersiz_trafik_orani
_gecersiz_trafik_orani == FDivInt(2, 100)

\* AdRevenuePayment._performans_bonusu
_performans_bonusu == FDivInt(5, 100)

\* tiklama_orani of _metrikleri_olustur
tiklama_orani == FDivInt(15, 1000)

\* 1 - self._gecersiz_trafik_orani of _metrikleri_olustur
gecerli_trafik_orani == FSub(FOne, _gecersiz_trafik_orani)

\* AdRevenuePayment._metrikleri_olustur: total impressions, the valid ones
\* (impressions * (1 - 0.02)) and the estimated clicks (impressions * 0.015),
\* both truncated by int()
_metrikleri_olustur(ad_impressions, cpm_rate) ==
    LET impressions == FFromInt(ad_impressions)
    IN  [toplam_gosterim  |-> ad_impressions,
         gecerli_gosterim |-> FTrunc(FMul(impressions, gecerli_trafik_orani)),
         tahmini_tiklama  |-> FTrunc(FMul(impressions, tiklama_orani)),
         ortalama_cpm     |-> cpm_rate]

\* AdRevenuePayment.__init__: the impressions and the cpm rate are stored as given
AdRevenuePaymentInit(a) ==
    LET b == PaymentBaseInitFull(a)
    IN  IF b.exc # "none" THEN b
        ELSE Ok([f \in (DOMAIN b.val) \cup {"ad_impressions", "cpm_rate", "metrik_onbellek"} |->
                    IF f = "ad_impressions" THEN a.ad_impressions
                    ELSE IF f = "cpm_rate" THEN a.cpm_rate
                    ELSE IF f = "metrik_onbellek"
                    THEN _metrikleri_olustur(a.ad_impressions, a.cpm_rate)
                    ELSE b.val[f]])

\* PaymentBase.add_log on a constructed object
add_log(r, message) == [r EXCEPT !.logs = Append(@, message)]

\* The amount setter without its test value < 0
amount_setter_NoSignTest(r, value) ==
    [exc |-> "none",
     val |-> [(IF value > HIGH_AMOUNT_LIMIT
               THEN [add_log(r, "high_amount") EXCEPT !.priority_level = 1]
               ELSE r)
              EXCEPT !.amount = value, !.updated_at = @ + 1]]

\* The amount setter raising the priority from 50000 on
amount_setter_LimitInclusive(r, value) ==
    IF value < 0 THEN [exc |-> "ValueError", val |-> r]
    ELSE [exc |-> "none",
          val |-> [(IF value >= HIGH_AMOUNT_LIMIT
                    THEN [add_log(r, "high_amount") EXCEPT !.priority_level = 1]
                    ELSE r)
                   EXCEPT !.amount = value, !.updated_at = @ + 1]]

\* PaymentBase.amount setter, for a number: the exception it raises and the
\* object after the call
amount_setter(r, value) ==
    IF value < 0 THEN [exc |-> "ValueError", val |-> r]
    ELSE [exc |-> "none",
          val |-> [(IF value > HIGH_AMOUNT_LIMIT
                    THEN [add_log(r, "high_amount") EXCEPT !.priority_level = 1]
                    ELSE r)
                   EXCEPT !.amount = value, !.updated_at = @ + 1]]

\* The status setter raising the priority as the amount setter does
status_setter_RaisesPriority(r, new_status) ==
    LET s == SetStatus(r, new_status)
    IN  IF s.exc # "none" THEN [exc |-> s.exc, val |-> r]
        ELSE [exc |-> "none",
              val |-> [add_log(s.val, "status_changed") EXCEPT !.updated_at = @ + 1,
                                                             !.priority_level = 1]]

\* The status setter assigning before it validates
status_setter_AssignsFirst(r, new_status) ==
    [exc |-> IF InSeq(new_status, VALID_STATUSES) THEN "none" ELSE "ValueError",
     val |-> [add_log(r, "status_changed") EXCEPT !.status = new_status,
                                                 !.updated_at = @ + 1]]

\* PaymentBase.status setter in full: the exception it raises and the object
\* after the call
status_setter(r, new_status) ==
    LET s == SetStatus(r, new_status)
    IN  IF s.exc # "none" THEN [exc |-> s.exc, val |-> r]
        ELSE [exc |-> "none",
              val |-> [add_log(s.val, "status_changed") EXCEPT !.updated_at = @ + 1]]

\* AdRevenuePayment._gosterim_dogrula, for an int
_gosterim_dogrula(deger) ==
    IF deger < 0 THEN Raise("ValueError") ELSE Ok(deger)

\* ham_kazanc of net_kazanc_hesapla: (impressions / 1000) * cpm
ham_kazanc(ad_impressions, cpm_rate) ==
    FMul(FDivInt(ad_impressions, 1000), FromThousandths(cpm_rate))

\* net_kazanc_hesapla granting the bonus from the threshold on
net_kazanc_hesapla_BonusInclusive(ad_impressions, cpm_rate) ==
    LET ham     == ham_kazanc(ad_impressions, cpm_rate)
        kesinti == FMul(ham, _gecersiz_trafik_orani)
        bonus   == IF ad_impressions >= BONUS_THRESHOLD
                   THEN FMul(ham, _performans_bonusu) ELSE FZero
    IN  Round2(FAdd(FSub(ham, kesinti), bonus))

\* sonuc of net_kazanc_hesapla: the earnings less the 2 % of invalid traffic,
\* plus the 5 % bonus above the threshold, before they are rounded
sonuc(ad_impressions, cpm_rate) ==
    LET ham     == ham_kazanc(ad_impressions, cpm_rate)
        kesinti == FMul(ham, _gecersiz_trafik_orani)
        bonus   == IF ad_impressions > BONUS_THRESHOLD
                   THEN FMul(ham, _performans_bonusu) ELSE FZero
    IN  FAdd(FSub(ham, kesinti), bonus)

\* AdRevenuePayment.net_kazanc_hesapla, in thousandths
net_kazanc_hesapla(ad_impressions, cpm_rate) ==
    Round2(sonuc(ad_impressions, cpm_rate))

\* update_impressions from the assignment self.amount = ... on: s is the
\* outcome of the amount setter
update_impressions_amount_set(r1, s) ==
    IF s.exc # "none" THEN [exc |-> s.exc, val |-> r1]
    ELSE [exc |-> "none",
          val |-> add_log([s.val EXCEPT !.metrik_onbellek =
                               _metrikleri_olustur(s.val.ad_impressions,
                                                   s.val.cpm_rate)],
                          "impressions_updated")]

\* update_impressions from net_kazanc_hesapla on: r1 holds the new count
update_impressions_counted(r1) ==
    update_impressions_amount_set(
        r1, amount_setter(r1, net_kazanc_hesapla(r1.ad_impressions, r1.cpm_rate)))

\* AdRevenuePayment.update_impressions: the statements run in order, an
\* exception leaves the object as the statements before it made it
update_impressions(r, new_count) ==
    LET v == _gosterim_dogrula(new_count)
    IN  IF v.exc # "none" THEN [exc |-> v.exc, val |-> r]
        ELSE update_impressions_counted([r EXCEPT !.ad_impressions = v.val])

\* AdRevenuePayment.sahtecilik_kontrolu_yap: on a risk score above 0.98 the
\* payment is put on hold through the status setter and a second entry is
\* logged; the value it returns and the object after the call
sahtecilik_kontrolu_yap(r, high_risk) ==
    IF high_risk
    THEN [ret |-> FALSE,
          val |-> add_log(status_setter(r, "on_hold").val, "high_risk_traffic")]
    ELSE [ret |-> TRUE, val |-> r]

----------------------------------------------------------------------------
(* Callers that work on payment objects directly: they construct ad revenue   *)
(* payments, assign amount and status, update the impressions and run the     *)
(* fraud check.  The repository stays empty.                                  *)

\* assignments to updated_at a caller makes to one object
MaxUpdates == 2

\* a call that appends to the logs of an object is taken while the object
\* holds fewer entries than this; an ad revenue payment starts with 2 entries
MaxLogs == 4

\* messages of their own that callers append to the logs of one object
MaxCallerLogs == 1

\* AdRevenuePayment(...) calls: a payment, a payment whose cpm rate is
\* negative (the constructor does not validate it), a negative amount
AdCtorInputs ==
    { [kind |-> "AdRevenue", channel_id |-> ChA, amount |-> 5000,
       currency |-> UsdLower, period |-> Jan, ad_impressions |-> 1000, cpm_rate |-> 5000],
      [kind |-> "AdRevenue", channel_id |-> ChA, amount |-> 5000,
       currency |-> UsdLower, period |-> Jan, ad_impressions |-> 1000, cpm_rate |-> -5000],
      [kind |-> "AdRevenue", channel_id |-> ChA, amount |-> -1000,
       currency |-> UsdLower, period |-> Jan, ad_impressions |-> 1000, cpm_rate |-> 5000] }

\* Values assigned to amount: negative, 10.0, 60000.0
AmountInputs == {-1000, 10000, 60000000}

\* Values assigned to status; "archived" is no status
StatusInputs == {"completed", "archived"}

\* Counts handed to update_impressions: a negative one and 150, whose net
\* income at a cpm of 5.0 is 0.735, half way between two cents
ImpressionInputs == {-5, 150}

InitRecord ==
    /\ recs = <<>>
    /\ storage = <<>>
    /\ channel_index = EmptyIndex
    /\ status_index = EmptyIndex
    /\ period_index = EmptyIndex
    /\ max_capacity = MaxCapacity
    /\ audit_log = <<>>
    /\ threads = NoThreads
    /\ tier_dicts = <<>>
    /\ last = Called("init", 0, TRUE, 0, 0, "none")

\* A caller constructs an AdRevenuePayment
ConstructAd(a) ==
    /\ Len(recs) < MaxRecs
    /\ LET c == AdRevenuePaymentInit(a)
       IN  /\ recs' = IF c.exc = "none" THEN Append(recs, c.val) ELSE recs
           /\ last' = Called("construct", IF c.exc = "none" THEN Len(recs) + 1 ELSE 0,
                             c.exc = "none", 0, 0, c.exc)
    /\ UNCHANGED <<storage, indices, max_capacity, audit_log, threads, tier_dicts>>

\* payment.amount = value
AmountSet(pid, value) ==
    /\ pid \in 1..Len(recs)
    /\ recs[pid].updated_at < MaxUpdates
    /\ LET s == amount_setter(recs[pid], value)
       IN  /\ recs' = [recs EXCEPT ![pid] = s.val]
           /\ last' = Called("set_amount", pid, s.exc = "none", 0, 0, s.exc)
    /\ UNCHANGED <<storage, indices, max_capacity, audit_log, threads, tier_dicts>>

\* payment.status = new_status
StatusSet(pid, new_status) ==
    /\ pid \in 1..Len(recs)
    /\ recs[pid].updated_at < MaxUpdates
    /\ LET s == status_setter(recs[pid], new_status)
       IN  /\ recs' = [recs EXCEPT ![pid] = s.val]
           /\ last' = Called("set_status", pid, s.exc = "none", 0, 0, s.exc)
    /\ UNCHANGED <<storage, indices, max_capacity, audit_log, threads, tier_dicts>>

\* The messages of callers in the logs of r
CallerLogs(r) == { i \in 1..Len(r.logs) : r.logs[i] = "caller_message" }

\* payment.add_log(message) called by a caller, with a message of its own
AddLog(pid) ==
    /\ pid \in 1..Len(recs)
    /\ Len(recs[pid].logs) < MaxLogs
    /\ Cardinality(CallerLogs(recs[pid])) < MaxCallerLogs
    /\ recs' = [recs EXCEPT ![pid] = add_log(recs[pid], "caller_message")]
    /\ last' = Called("add_log", pid, TRUE, 0, 0, "none")
    /\ UNCHANGED <<storage, indices, max_capacity, audit_log, threads, tier_dicts>>

\* The object and the outcome after update_impressions gave s
ImpressionsUpdated(pid, s) ==
    /\ recs' = [recs EXCEPT ![pid] = s.val]
    /\ last' = Called("update_impressions", pid, s.exc = "none", 0, 0, s.exc)

\* payment.update_impressions(new_count)
UpdateImpressions(pid, new_count) ==
    /\ pid \in 1..Len(recs)
    /\ recs[pid].updated_at < MaxUpdates
    /\ ImpressionsUpdated(pid, update_impressions(recs[pid], new_count))
    /\ UNCHANGED <<storage, indices, max_capacity, audit_log, threads, tier_dicts>>

\* payment.sahtecilik_kontrolu_yap(), high_risk being random.random() > 0.98
SahtecilikKontroluYap(pid, high_risk) ==
    /\ pid \in 1..Len(recs)
    /\ recs[pid].kind = "AdRevenue"
    /\ recs[pid].updated_at < MaxUpdates
    /\ LET s == sahtecilik_kontrolu_yap(recs[pid], high_risk)
       IN  /\ recs' = [recs EXCEPT ![pid] = s.val]
           /\ last' = Called("sahtecilik_kontrolu_yap", pid, s.ret, 0, 0, "none")
    /\ UNCHANGED <<storage, indices, max_capacity, audit_log, threads, tier_dicts>>

NextRecord ==
    \/ \E a \in AdCtorInputs : ConstructAd(a)
    \/ \E pid \in Ids, value \in AmountInputs : AmountSet(pid, value)
    \/ \E pid \in Ids, new_status \in StatusInputs : StatusSet(pid, new_status)
    \/ \E pid \in Ids, new_count \in ImpressionInputs : UpdateImpressions(pid, new_count)
    \/ \E pid \in Ids, high_risk \in BOOLEAN : SahtecilikKontroluYap(pid, high_risk)
    \/ \E pid \in Ids : AddLog(pid)

SpecRecord == InitRecord /\ [][NextRecord]_vars

\* s is an initial segment of t
IsPrefix(s, t) == Len(s) <= Len(t) /\ SubSeq(t, 1, Len(s)) = s

\* C11: assigning a status outside the seven statuses raises ValueError and
\* leaves the object's status, updated_at and logs as they were; the status of
\* every object is one of the seven statuses in every reachable state
C11_InvalidStatusRejected ==
    /\ [](\A pid \in 1..Len(recs) : InSeq(recs[pid].status, VALID_STATUSES))
    /\ [][\A pid \in Ids, new_status \in StatusInputs :
             (StatusSet(pid, new_status) /\ ~InSeq(new_status, VALID_STATUSES))
             => /\ last'.exc = "ValueError"
                /\ recs'[pid].status = recs[pid].status
                /\ recs'[pid].updated_at = recs[pid].updated_at
                /\ recs'[pid].logs = recs[pid].logs]_vars

\* C11: an invalid status was just rejected on an object that had been
\* completed before
C11_Witness ==
    /\ last.op = "set_status"
    /\ last.exc = "ValueError"
    /\ recs[last.pid].status = "completed"
    /\ recs[last.pid].updated_at > 0

\* C12: the amount of every object is >= 0 in every reachable state; a
\* negative amount makes the constructor and the amount setter raise
\* ValueError, the setter leaving amount, priority_level and logs as they
\* were; update_impressions stores no negative amount
C12_AmountNeverNegative ==
    /\ [](\A pid \in 1..Len(recs) : recs[pid].amount >= 0)
    /\ [][/\ \A a \in AdCtorInputs :
                (ConstructAd(a) /\ a.amount < 0)
                => last'.exc = "ValueError" /\ recs' = recs
          /\ \A pid \in Ids, value \in AmountInputs :
                (AmountSet(pid, value) /\ value < 0)
                => /\ last'.exc = "ValueError"
                   /\ recs'[pid].amount = recs[pid].amount
                   /\ recs'[pid].priority_level = recs[pid].priority_level
                   /\ recs'[pid].logs = recs[pid].logs
          /\ \A pid \in Ids, new_count \in ImpressionInputs :
                (last'.op = "update_impressions" /\ UpdateImpressions(pid, new_count))
                => recs'[pid].amount >= 0]_vars

\* C12: update_impressions just computed a negative net income (negative cpm
\* rate) and the amount setter refused it
C12_Witness ==
    /\ last.op = "update_impressions"
    /\ last.exc = "ValueError"
    /\ recs[last.pid].cpm_rate < 0
    /\ recs[last.pid].ad_impressions = 150

\* C13: every step that changes an object's amount or status appends at least
\* one entry to its logs, and the logs only grow at the end
C13_MutationsLogged ==
    [][\A pid \in 1..Len(recs) :
          /\ IsPrefix(recs[pid].logs, recs'[pid].logs)
          /\ (recs'[pid].amount # recs[pid].amount \/ recs'[pid].status # recs[pid].status)
             => Len(recs'[pid].logs) > Len(recs[pid].logs)]_vars

----------------------------------------------------------------------------
(* Payment processing: callers create payments through the service, some of  *)
(* them above the manual-review limit, process them, and move them between    *)
(* statuses with bulk_status_update.                                          *)

\* Payments of 60000.0, of exactly 50000.0 and of 50.0
SimCtorInputs ==
    { [kind |-> "Sponsorship", channel_id |-> ChA, amount |-> 60000000,
       currency |-> TRY, period |-> Jan],
      [kind |-> "Sponsorship", channel_id |-> ChA, amount |-> MANUAL_REVIEW_LIMIT,
       currency |-> TRY, period |-> Jan],
      [kind |-> "AdRevenue",   channel_id |-> ChA, amount |-> 50000,
       currency |-> TRY, period |-> Jan] }

\* Statuses handed to bulk_status_update; "archived" is no status
SimBulkStatusInputs == {"pending", "processing", "completed", "archived"}

InitSim ==
    /\ recs = <<>>
    /\ storage = <<>>
    /\ channel_index = EmptyIndex
    /\ status_index = EmptyIndex
    /\ period_index = EmptyIndex
    /\ max_capacity = MaxCapacity
    /\ audit_log = <<>>
    /\ threads = NoThreads
    /\ tier_dicts = <<>>
    /\ last = Called("init", 0, TRUE, 0, 0, "none")

NextSim ==
    \/ \E a \in SimCtorInputs : Construct(a)
    \/ \E pid \in Ids : CreatePaymentRecord(pid)
    \/ \E pid \in Ids, is_success \in BOOLEAN : SimulatePaymentProcessing(pid, is_success)
    \/ \E payment_ids \in BulkIdInputs, new_status \in SimBulkStatusInputs :
           BulkStatusUpdate(payment_ids, new_status)

SpecSim == InitSim /\ [][NextSim]_vars

\* C14: simulate_payment_processing on an id that is not stored, or on a
\* record whose status is completed, returns a failed result and changes no
\* record
C14_SimulateRefuses ==
    [][\A pid \in Ids, is_success \in BOOLEAN :
          (/\ SimulatePaymentProcessing(pid, is_success)
           /\ (pid \notin StoredIds \/ recs[pid].status = "completed"))
          => /\ ~last'.ok
             /\ last'.exc = "none"
             /\ recs' = recs]_vars

\* C14: the call was just refused for a stored, completed record
C14_Witness ==
    /\ last.op = "simulate"
    /\ ~last.ok
    /\ last.pid \in StoredIds
    /\ recs[last.pid].status = "completed"

\* C15: on a stored record above 50000 that is neither completed nor
\* processing, the call sets processing and returns success whatever the draw;
\* a call that moves such a record to completed or failed found it processing
C15_ManualReviewFirst ==
    [][\A pid \in Ids, is_success \in BOOLEAN :
          (/\ SimulatePaymentProcessing(pid, is_success)
           /\ pid \in StoredIds
           /\ recs[pid].amount > MANUAL_REVIEW_LIMIT)
          => /\ recs[pid].status \notin {"completed", "processing"}
                => /\ recs'[pid].status = "processing"
                   /\ last'.ok
                   /\ last'.txid = pid
             /\ (recs'[pid].status \in {"completed", "failed"}
                 /\ recs'[pid].status # recs[pid].status)
                => recs[pid].status = "processing"]_vars

\* C15: a payment of 60000.0 was just put under manual review
C15_Witness ==
    /\ last.op = "simulate"
    /\ last.ok
    /\ recs[last.pid].amount > MANUAL_REVIEW_LIMIT
    /\ recs[last.pid].status = "processing"

\* C16: on a stored record that is not completed and does not take the
\* manual-review branch (amount <= 50000, or processing), a successful draw
\* sets completed and returns success, a failed draw sets failed and returns
\* failure
C16_DrawDecides ==
    [][\A pid \in Ids, is_success \in BOOLEAN :
          (/\ SimulatePaymentProcessing(pid, is_success)
           /\ pid \in StoredIds
           /\ recs[pid].status # "completed"
           /\ (recs[pid].amount <= MANUAL_REVIEW_LIMIT \/ recs[pid].status = "processing"))
          => /\ recs'[pid].status = (IF is_success THEN "completed" ELSE "failed")
             /\ last'.ok = is_success
             /\ last'.txid = pid]_vars

\* C16: a payment of exactly 50000.0 was just completed by a successful draw
C16_Witness ==
    /\ last.op = "simulate"
    /\ last.ok
    /\ recs[last.pid].amount = MANUAL_REVIEW_LIMIT
    /\ recs[last.pid].status = "completed"

----------------------------------------------------------------------------
(* Holding low payments: callers create payments of small amounts, process   *)
(* some of them and call hold_low_payments.                                   *)

\* Payments of 0.0, 0.004, 50.0, exactly 100.0 and 200.0
HoldCtorInputs ==
    { [kind |-> "AdRevenue", channel_id |-> ChA, amount |-> v,
       currency |-> TRY, period |-> Jan] : v \in {0, 4, 50000, 100000, 200000} }

InitHold ==
    /\ recs = <<>>
    /\ storage = <<>>
    /\ channel_index = EmptyIndex
    /\ status_index = EmptyIndex
    /\ period_index = EmptyIndex
    /\ max_capacity = MaxCapacity
    /\ audit_log = <<>>
    /\ threads = NoThreads
    /\ tier_dicts = <<>>
    /\ last = Called("init", 0, TRUE, 0, 0, "none")

NextHold ==
    \/ \E a \in HoldCtorInputs : Construct(a)
    \/ \E pid \in Ids : CreatePaymentRecord(pid)
    \/ \E pid \in Ids, is_success \in BOOLEAN : SimulatePaymentProcessing(pid, is_success)
    \/ \E threshold \in HoldThresholdInputs : HoldLowPayments(threshold)

SpecHold == InitHold /\ [][NextHold]_vars

\* The stored records hold_low_payments(threshold) is to move
ToHold(threshold) ==
    { pid \in StoredIds : /\ recs[pid].status = "pending"
                          /\ 0 < recs[pid].amount
                          /\ recs[pid].amount <= threshold }

\* C17: hold_low_payments(threshold) moves to on_hold exactly the stored
\* records that are pending with 0 < amount <= threshold, leaves every other
\* record as it was, and returns the number of records it moved
C17_HoldExact ==
    [][\A threshold \in HoldThresholdInputs :
          HoldLowPayments(threshold)
          => /\ \A pid \in 1..Len(recs) :
                    recs'[pid] = IF pid \in ToHold(threshold)
                                 THEN [recs[pid] EXCEPT !.status = "on_hold"]
                                 ELSE recs[pid]
             /\ last'.ret = Cardinality(ToHold(threshold))]_vars

----------------------------------------------------------------------------
\* The positions of the id list that name a stored record
StoredListed(payment_ids) ==
    { k \in 1..Len(payment_ids) : payment_ids[k] \in StoredIds }

\* C18: bulk_status_update(payment_ids, new_status) raises nothing; with one of
\* the seven statuses it sets the status of every listed id that is stored,
\* leaves the other records as they were and returns the number of listed ids
\* that are stored; with another value it changes no record and returns 0
C18_BulkBestEffort ==
    [][\A payment_ids \in BulkIdInputs, new_status \in SimBulkStatusInputs :
          BulkStatusUpdate(payment_ids, new_status)
          => /\ last'.exc = "none"
             /\ IF InSeq(new_status, VALID_STATUSES)
                THEN /\ \A pid \in 1..Len(recs) :
                           recs'[pid] =
                               IF \E k \in StoredListed(payment_ids) : payment_ids[k] = pid
                               THEN [recs[pid] EXCEPT !.status = new_status]
                               ELSE recs[pid]
                     /\ last'.ret = Cardinality(StoredListed(payment_ids))
                ELSE recs' = recs /\ last'.ret = 0]_vars

\* C18: a bulk update just set one stored record of 50.0 to processing while
\* another object is not stored
C18_Witness ==
    /\ last.op = "bulk"
    /\ last.ret = 1
    /\ Len(recs) = 2
    /\ Cardinality(StoredIds) = 1
    /\ \E pid \in StoredIds : recs[pid].status = "processing" /\ recs[pid].amount = 50000

----------------------------------------------------------------------------
(* Periodic report (services.py, generate_periodic_report).  The report reads *)
(* the stored payments of a channel and calls calculate_tax on each, which    *)
(* logs on ad revenue and membership payments.                                *)

\* AdRevenuePayment.calculate_tax: round(net_kazanc_hesapla() * 0.18, 2), in
\* thousandths
AdRevenue_calculate_tax(r) ==
    Round2(FMul(FromThousandths(net_kazanc_hesapla(r.ad_impressions, r.cpm_rate)),
                _vergi_orani))

\* MembershipRevenuePayment._platform_fee_rate
_platform_fee_rate == FDivInt(30, 100)

\* MembershipRevenuePayment._iade_rezerv_orani
_iade_rezerv_orani == FDivInt(5, 100)

\* MembershipRevenuePayment._stopaj_orani
_stopaj_orani == FDivInt(20, 100)

\* MembershipRevenuePayment.calculate_tax:
\* round(amount * (1 - 0.30) * (1 - 0.05) * 0.20, 2), in thousandths
Membership_calculate_tax(r) ==
    LET net_after_fee == FMul(FromThousandths(r.amount), FSub(FOne, _platform_fee_rate))
        vergi_matrahi == FMul(net_after_fee, FSub(FOne, _iade_rezerv_orani))
    IN  Round2(FMul(vergi_matrahi, _stopaj_orani))

\* kurumlar_vergisi of SponsorshipPayment.calculate_tax
kurumlar_vergisi == FDivInt(20, 100)

\* damga_vergisi of SponsorshipPayment.calculate_tax
damga_vergisi == FDivInt(948, 100000)

\* SponsorshipPayment.calculate_tax: round(amount * (0.20 + 0.00948), 2), in
\* thousandths
Sponsorship_calculate_tax(r) ==
    Round2(FMul(FromThousandths(r.amount), FAdd(kurumlar_vergisi, damga_vergisi)))

\* payment.calculate_tax(): the value it returns
calculate_tax(r) ==
    IF r.kind = "AdRevenue" THEN AdRevenue_calculate_tax(r)
    ELSE IF r.kind = "Membership" THEN Membership_calculate_tax(r)
    ELSE Sponsorship_calculate_tax(r)

\* payment.calculate_tax(): the object after the call
AfterCalculateTax(r) ==
    IF r.kind \in {"AdRevenue", "Membership"} THEN add_log(r, "tax_calculated") ELSE r

\* sum(p.amount for p in ids), a float
SumAmounts(ids, R) == FSum([i \in 1..Len(ids) |-> FromThousandths(R[ids[i]].amount)])

\* sum(p.calculate_tax() for p in ids), a float
SumTaxes(ids, R) ==
    FSum([i \in 1..Len(ids) |-> FromThousandths(calculate_tax(R[ids[i]]))])

\* all_payments without the filter p.period == period
PeriodPayments_AnyPeriod(db, R, channel_id, period) == find_all_by_channel(db, channel_id)

\* all_payments filtered by p.period == period
PeriodPayments(db, R, channel_id, period) ==
    SelectSeq(find_all_by_channel(db, channel_id), LAMBDA pid : R[pid].period = period)

\* breakdown[kind]: 0.0 plus the amounts of the period payments of that
\* class, a float that is not rounded
BreakdownOf(ids, R, kind) ==
    SumAmounts(SelectSeq(ids, LAMBDA pid : R[pid].kind = kind), R)

\* RevenueService.generate_periodic_report: the dict it returns (the rounded
\* values in thousandths, the breakdown as floats) and the objects after the
\* calls of calculate_tax
RevenueService_generate_periodic_report(db, R, channel_id, period) ==
    LET period_payments == PeriodPayments(db, R, channel_id, period)
        total_gross     == SumAmounts(period_payments, R)
        total_tax       == SumTaxes(period_payments, R)
    IN  [report |->
            [channel_id            |-> channel_id,
             period                |-> period,
             total_gross_income    |-> Round2(total_gross),
             total_estimated_tax   |-> Round2(total_tax),
             net_income_projection |-> Round2(FSub(total_gross, total_tax)),
             breakdown             |->
                 [k \in {"AdRevenue", "Membership", "Sponsorship"} |->
                     BreakdownOf(period_payments, R, k)],
             transaction_count     |-> Len(period_payments)],
         R |-> [pid \in 1..Len(R) |->
                   IF InSeq(pid, period_payments) THEN AfterCalculateTax(R[pid]) ELSE R[pid]]]

ChB == <<"c","h","B">>

\* An ad revenue payment of 0.004 (1000 impressions at 5.0), a membership
\* payment of 5.0 (its tax 0.665 is half way between two cents), a sponsorship
\* payment of 0.004, and a sponsorship payment of 10.0 on another channel in
\* another period
ReportCtorInputs ==
    { [kind |-> "AdRevenue",   channel_id |-> ChA, amount |-> 4,
       currency |-> TRY, period |-> Jan, ad_impressions |-> 1000, cpm_rate |-> 5000],
      [kind |-> "Membership",  channel_id |-> ChA, amount |-> 5000,
       currency |-> TRY, period |-> Jan],
      [kind |-> "Sponsorship", channel_id |-> ChA, amount |-> 4,
       currency |-> TRY, period |-> Jan],
      [kind |-> "Sponsorship", channel_id |-> ChBPadded, amount |-> 10000,
       currency |-> TRY, period |-> Feb] }

ReportChannelInputs == {ChA, ChB}

ReportPeriodInputs == {Jan, Feb}

\* The status assigned to a stored payment that is pending
ReportStatusInputs == {"cancelled"}

InitReport ==
    /\ recs = <<>>
    /\ storage = <<>>
    /\ channel_index = EmptyIndex
    /\ status_index = EmptyIndex
    /\ period_index = EmptyIndex
    /\ max_capacity = MaxCapacity
    /\ audit_log = <<>>
    /\ threads = NoThreads
    /\ tier_dicts = <<>>
    /\ last = Called("init", 0, TRUE, 0, 0, "none")

\* A caller constructs a payment of one of the three classes, the arguments
\* of the subclass being valid
ConstructPayment(a) ==
    /\ Len(recs) < MaxRecs
    /\ LET c == IF a.kind = "AdRevenue" THEN AdRevenuePaymentInit(a)
                ELSE PaymentBaseInitFull(a)
       IN  /\ recs' = IF c.exc = "none" THEN Append(recs, c.val) ELSE recs
           /\ last' = Called("construct", IF c.exc = "none" THEN Len(recs) + 1 ELSE 0,
                             c.exc = "none", 0, 0, c.exc)
    /\ UNCHANGED <<storage, indices, max_capacity, audit_log, threads, tier_dicts>>

\* service.generate_periodic_report(channel_id, period)
GeneratePeriodicReport(channel_id, period) ==
    /\ \A pid \in 1..Len(recs) : Len(recs[pid].logs) < MaxLogs
    /\ LET g == RevenueService_generate_periodic_report(DB, recs, channel_id, period)
       IN  /\ recs' = g.R
           /\ last' = Called("report", 0, TRUE, 0, g.report, "none")
    /\ UNCHANGED <<storage, indices, max_capacity, audit_log, threads, tier_dicts>>

NextReport ==
    \/ \E a \in ReportCtorInputs : ConstructPayment(a)
    \/ \E pid \in Ids : CreatePaymentRecord(pid)
    \/ \E pid \in Ids : Delete(pid)
    \/ \E pid \in Ids, new_status \in ReportStatusInputs :
           /\ pid \in StoredIds
           /\ recs[pid].status = "pending"
           /\ StatusSet(pid, new_status)
    \/ \E channel_id \in ReportChannelInputs, period \in ReportPeriodInputs :
           GeneratePeriodicReport(channel_id, period)

SpecReport == InitReport /\ [][NextReport]_vars

\* C19: the three breakdown values of a report sum exactly to its total
\* gross income
C19_BreakdownSumsToGross ==
    last.op = "report"
    => FAdd(FAdd(last.ret.breakdown["AdRevenue"], last.ret.breakdown["Membership"]),
            last.ret.breakdown["Sponsorship"])
       = FromThousandths(last.ret.total_gross_income)

\* The stored records of a channel and a period, whatever their status
StoredOf(channel_id, period) ==
    SelectSeq(storage, LAMBDA pid : recs[pid].channel = channel_id /\ recs[pid].period = period)

\* C20: a report aggregates exactly the stored records of its channel and
\* period, whatever their status and without the deleted ones:
\* transaction_count is their number, and, each rounded to 2 decimals, the
\* gross income is the sum of their amounts, the estimated tax the sum of
\* their calculate_tax values and the net projection the sum of the amounts
\* minus the sum of the taxes, which is also the gross income minus the
\* estimated tax as the report gives them
C20_ReportAggregatesStored ==
    last.op = "report"
    => LET ids == StoredOf(last.ret.channel_id, last.ret.period)
       IN  /\ last.ret.transaction_count = Len(ids)
           /\ last.ret.total_gross_income = Round2(SumAmounts(ids, recs))
           /\ last.ret.total_estimated_tax = Round2(SumTaxes(ids, recs))
           /\ last.ret.net_income_projection
                  = Round2(FSub(SumAmounts(ids, recs), SumTaxes(ids, recs)))
           /\ last.ret.net_income_projection
                  = Round2(FSub(FromThousandths(last.ret.total_gross_income),
                                FromThousandths(last.ret.total_estimated_tax)))

\* C20: a report of one transaction, a stored membership payment in status
\* cancelled with the tax 0.67, while another record of the channel and period
\* has been deleted from the store
C20_Witness ==
    /\ last.op = "report"
    /\ last.ret.transaction_count = 1
    /\ \E pid \in StoredIds : /\ recs[pid].kind = "Membership"
                              /\ recs[pid].status = "cancelled"
    /\ last.ret.total_gross_income = 5000
    /\ last.ret.total_estimated_tax = 670
    /\ last.ret.net_income_projection = 4330
    /\ \E pid \in 1..Len(recs) :
           /\ ~InSeq(pid, storage)
           /\ recs[pid].channel = last.ret.channel_id
           /\ recs[pid].period = last.ret.period
           /\ InSeq([op_type |-> "DELETE", operation |-> "DELETE", pid |-> pid], audit_log)

----------------------------------------------------------------------------
(* Construction of the three payment classes with well-formed and malformed   *)
(* arguments (base.py __init__, implementations.py __init__ of each class).   *)

\* s.startswith(prefix)
StartsWith(s, prefix) ==
    Len(s) >= Len(prefix) /\ SubSeq(s, 1, Len(prefix)) = prefix

\* The object r with the attributes of extra assigned
WithFields(r, extra) ==
    [f \in (DOMAIN r) \cup (DOMAIN extra) |-> IF f \in DOMAIN extra THEN extra[f] ELSE r[f]]

UnknownSponsor ==
    <<"B","i","l","i","n","m","e","y","e","n"," ","S","p","o","n","s","o","r">>

\* SponsorshipPayment._isim_kontrol
_isim_kontrol(isim) ==
    IF isim = <<>> \/ Len(Strip(isim)) < 2 THEN UnknownSponsor ELSE Strip(isim)

CntPrefix == <<"C","N","T","-">>

SpPrefix == <<"S","P","-">>

\* SponsorshipPayment._sozlesme_no_kontrol on the object r; hex is
\* uuid.uuid4().hex[:6].upper() of the call
_sozlesme_no_kontrol(r, c_id, hex) ==
    IF ~StartsWith(c_id, CntPrefix) /\ ~StartsWith(c_id, SpPrefix)
    THEN [contract_id |-> CntPrefix \o hex, obj |-> add_log(r, "contract_id_assigned")]
    ELSE [contract_id |-> c_id, obj |-> r]

\* SponsorshipPayment.__init__
SponsorshipPaymentInit(a, hex) ==
    LET b == PaymentBaseInitFull(a)
    IN  IF b.exc # "none" THEN b
        ELSE LET c == _sozlesme_no_kontrol(b.val, a.contract_id, hex)
             IN  Ok(WithFields(c.obj, [sponsor_name       |-> _isim_kontrol(a.sponsor_name),
                                       contract_id        |-> c.contract_id,
                                       is_invoice_sent    |-> FALSE,
                                       taksit_sayisi      |-> 1,
                                       teslimat_onaylandi |-> FALSE]))

Acme == <<"A","c","m","e">>

ContractOk == <<"C","N","T","-","1">>

ContractBad == <<"X","X","-","1">>

FourLetter == <<"u","s","d","x">>

\* three characters that are not letters
DigitsCode == <<"1","2","$">>

\* The hex digits uuid4 may produce for a generated contract id
HexInputs == { <<"0","0","0","0","0","0">>, <<"A","1","B","2","C","3">> }

\* SponsorshipPayment(...) calls: well-formed; a malformed contract id; a
\* currency of 2, of 4 and of 0 characters; a currency of 3 characters that
\* are not letters; a month 13; a negative amount; a channel id too short
SponsorCtorInputs ==
    { [kind |-> "Sponsorship", channel_id |-> x[1], amount |-> x[2], currency |-> x[3],
       period |-> x[4], sponsor_name |-> Acme, contract_id |-> x[5]] :
      x \in { <<ChA, 50000, UsdLower, Jan, ContractOk>>,
              <<ChA, 50000, TRY, Jan, ContractBad>>,
              <<ChA, 50000, TwoLetter, Jan, ContractOk>>,
              <<ChA, 50000, FourLetter, Jan, ContractOk>>,
              <<ChA, 50000, <<>>, Jan, ContractOk>>,
              <<ChA, 50000, DigitsCode, Jan, ContractOk>>,
              <<ChA, 50000, TRY, Month13, ContractOk>>,
              <<ChA, -1000, TRY, Jan, ContractOk>>,
              <<ChShort, 50000, TRY, Jan, ContractOk>> } }

InitCtor ==
    /\ recs = <<>>
    /\ storage = <<>>
    /\ channel_index = EmptyIndex
    /\ status_index = EmptyIndex
    /\ period_index = EmptyIndex
    /\ max_capacity = MaxCapacity
    /\ audit_log = <<>>
    /\ threads = NoThreads
    /\ tier_dicts = <<>>
    /\ last = Called("init", 0, TRUE, 0, 0, "none")

\* A caller constructs a SponsorshipPayment
ConstructSponsorship(a, hex) ==
    /\ Len(recs) < MaxRecs
    /\ LET c == SponsorshipPaymentInit(a, hex)
       IN  /\ recs' = IF c.exc = "none" THEN Append(recs, c.val) ELSE recs
           /\ last' = Called("construct", IF c.exc = "none" THEN Len(recs) + 1 ELSE 0,
                             c.exc = "none", 0, 0, c.exc)
    /\ UNCHANGED <<storage, indices, max_capacity, audit_log, threads, tier_dicts>>

\* SponsorshipPayment.mark_invoice_sent: the object after the call
mark_invoice_sent(r) ==
    IF r.is_invoice_sent THEN add_log(r, "invoice_already_sent")
    ELSE add_log([r EXCEPT !.is_invoice_sent = TRUE], "invoice_sent")

\* SponsorshipPayment.taksit_plani_olustur
taksit_plani_olustur(r, taksit_adedi) ==
    IF taksit_adedi < 1 THEN [exc |-> "ValueError", val |-> r]
    ELSE Ok(add_log([r EXCEPT !.taksit_sayisi = taksit_adedi], "installment_plan"))

\* SponsorshipPayment.teslimat_onayla: the object after the call
teslimat_onayla(r) ==
    add_log([r EXCEPT !.teslimat_onaylandi = TRUE], "deliverables_confirmed")

\* payment.mark_invoice_sent()
MarkInvoiceSent(pid) ==
    /\ pid \in 1..Len(recs)
    /\ recs[pid].kind = "Sponsorship"
    /\ Len(recs[pid].logs) < MaxLogs
    /\ recs' = [recs EXCEPT ![pid] = mark_invoice_sent(recs[pid])]
    /\ last' = Called("mark_invoice_sent", pid, TRUE, 0, 0, "none")
    /\ UNCHANGED <<storage, indices, max_capacity, audit_log, threads, tier_dicts>>

\* payment.taksit_plani_olustur(taksit_adedi)
TaksitPlaniOlustur(pid, taksit_adedi) ==
    /\ pid \in 1..Len(recs)
    /\ recs[pid].kind = "Sponsorship"
    /\ Len(recs[pid].logs) < MaxLogs
    /\ LET s == taksit_plani_olustur(recs[pid], taksit_adedi)
       IN  /\ recs' = [recs EXCEPT ![pid] = s.val]
           /\ last' = Called("taksit_plani_olustur", pid, s.exc = "none", 0, 0, s.exc)
    /\ UNCHANGED <<storage, indices, max_capacity, audit_log, threads, tier_dicts>>

\* payment.teslimat_onayla()
TeslimatOnayla(pid) ==
    /\ pid \in 1..Len(recs)
    /\ recs[pid].kind = "Sponsorship"
    /\ Len(recs[pid].logs) < MaxLogs
    /\ recs' = [recs EXCEPT ![pid] = teslimat_onayla(recs[pid])]
    /\ last' = Called("teslimat_onayla", pid, TRUE, 0, 0, "none")
    /\ UNCHANGED <<storage, indices, max_capacity, audit_log, threads, tier_dicts>>

\* Numbers of instalments passed to taksit_plani_olustur
TaksitInputs == {0, 3}

\* sum(dagilim.values())
RECURSIVE SumValues(_)
SumValues(dagilim) ==
    IF DOMAIN dagilim = {} THEN 0
    ELSE LET k == CHOOSE x \in DOMAIN dagilim : TRUE
         IN  dagilim[k] + SumValues([x \in (DOMAIN dagilim) \ {k} |-> dagilim[x]])

\* dagilim.get(key, default)
DictGet(dagilim, key, default) ==
    IF key \in DOMAIN dagilim THEN dagilim[key] ELSE default

\* The dict dagilim after dagilim[key] = value
DictSet(dagilim, key, value) ==
    [k \in (DOMAIN dagilim) \cup {key} |-> IF k = key THEN value ELSE dagilim[k]]

\* MembershipRevenuePayment._abone_sayisi_dogrula
_abone_sayisi_dogrula(sayi) ==
    IF sayi < 0 THEN Raise("ValueError") ELSE Ok(sayi)

\* The body of _tier_dagilimi_dogrula assigning fark to "Diger" instead of
\* adding it to the subscribers the tier has
TierFarkApplied_OverwritesDiger(r, dicts, dagilim, fark) ==
    IF fark > 0
    THEN [dicts |-> [dicts EXCEPT ![dagilim] = DictSet(@, "Diger", fark)],
          ret   |-> dagilim,
          obj   |-> r]
    ELSE IF fark < 0
    THEN [dicts |-> dicts, ret |-> dagilim, obj |-> add_log(r, "tier_surplus_warning")]
    ELSE [dicts |-> dicts, ret |-> dagilim, obj |-> r]

\* The body of _tier_dagilimi_dogrula with fark computed: the dict object
\* dagilim of dicts is changed in place and is the object returned
TierFarkApplied(r, dicts, dagilim, fark) ==
    IF fark > 0
    THEN [dicts |-> [dicts EXCEPT ![dagilim] =
                        DictSet(@, "Diger", DictGet(@, "Diger", 0) + fark)],
          ret   |-> dagilim,
          obj   |-> r]
    ELSE IF fark < 0
    THEN [dicts |-> dicts, ret |-> dagilim, obj |-> add_log(r, "tier_surplus_warning")]
    ELSE [dicts |-> dicts, ret |-> dagilim, obj |-> r]

\* MembershipRevenuePayment._tier_dagilimi_dogrula on the object r, whose
\* total_subscribers is set, with the dict object dagilim of dicts as its
\* argument: the dict objects after the call, the dict object returned (the
\* argument itself) and the object r after the call
_tier_dagilimi_dogrula(r, dicts, dagilim) ==
    TierFarkApplied(r, dicts, dagilim, r.total_subscribers - SumValues(dicts[dagilim]))

\* MembershipRevenuePayment.__init__; a.tier_breakdown is a dict object of
\* dicts, and the payment keeps that object, not a copy
MembershipRevenuePaymentInit(a, dicts) ==
    LET b == PaymentBaseInitFull(a)
        n == _abone_sayisi_dogrula(a.total_subscribers)
    IN  IF b.exc # "none" THEN [exc |-> b.exc, val |-> b.val, dicts |-> dicts]
        ELSE IF n.exc # "none" THEN [exc |-> n.exc, val |-> n.val, dicts |-> dicts]
        ELSE LET r1 == WithFields(b.val, [total_subscribers |-> n.val])
                 t  == _tier_dagilimi_dogrula(r1, dicts, a.tier_breakdown)
             IN  [exc   |-> "none",
                  val   |-> WithFields(t.obj, [tier_breakdown |-> t.ret]),
                  dicts |-> t.dicts]

\* The dicts a caller writes out as tier_breakdown: tiers of 10 subscribers;
\* of 4; of 5 with a "Diger" tier; of 14
TierInputs ==
    { [k \in {"Gold", "Silver"} |-> IF k = "Gold" THEN 4 ELSE 6],
      [k \in {"Gold"} |-> 4],
      [k \in {"Gold", "Diger"} |-> IF k = "Gold" THEN 4 ELSE 1],
      [k \in {"Gold"} |-> 14] }

\* MembershipRevenuePayment(...) calls.  The tier_breakdown argument is a new
\* dict with the given items (ref = 0), or the dict object ref that an
\* earlier payment was constructed with.  With 10 subscribers: each of the
\* new dicts, and each dict object there is; with 20: each dict object there
\* is; with -1: a new dict
MemberCtorInputs ==
    { [kind |-> "Membership", channel_id |-> ChA, amount |-> 50000, currency |-> TRY,
       period |-> Jan, total_subscribers |-> x[1], tier_breakdown |-> x[2]] :
      x \in ({10} \X { [ref |-> 0, items |-> d] : d \in TierInputs })
            \cup ({10, 20} \X { [ref |-> k, items |-> <<>>] : k \in 1..MaxRecs })
            \cup {<<-1, [ref |-> 0, items |-> [k \in {"Gold"} |-> 4]]>>} }

\* The dict objects there are when the constructor runs with the argument t
DictsWith(t) == IF t.ref = 0 THEN Append(tier_dicts, t.items) ELSE tier_dicts

\* The dict object the argument t is
DictOf(t) == IF t.ref = 0 THEN Len(tier_dicts) + 1 ELSE t.ref

\* A caller constructs a MembershipRevenuePayment
ConstructMembership(a) ==
    /\ Len(recs) < MaxRecs
    /\ a.tier_breakdown.ref <= Len(tier_dicts)
    /\ LET c == MembershipRevenuePaymentInit(
                    [a EXCEPT !.tier_breakdown = DictOf(a.tier_breakdown)],
                    DictsWith(a.tier_breakdown))
       IN  /\ recs' = IF c.exc = "none" THEN Append(recs, c.val) ELSE recs
           /\ tier_dicts' = IF c.exc = "none" THEN c.dicts ELSE tier_dicts
           /\ last' = Called("construct", IF c.exc = "none" THEN Len(recs) + 1 ELSE 0,
                             c.exc = "none", 0, 0, c.exc)
    /\ UNCHANGED <<storage, indices, max_capacity, audit_log, threads>>

\* MembershipRevenuePayment.arpu_hesapla, in thousandths
arpu_hesapla(r) ==
    IF r.total_subscribers <= 0 THEN 0
    ELSE Round2(FDiv(FromThousandths(r.amount), r.total_subscribers))

\* MembershipRevenuePayment.gelecek_ay_tahmini_yap with a churn rate of
\* churn / 100: the value it returns, in thousandths
gelecek_ay_tahmini_yap(r, churn) ==
    LET kalan_aboneler == FMul(FFromInt(r.total_subscribers),
                               FSub(FOne, FDivInt(churn, 100)))
    IN  Round2(FMul(kalan_aboneler, FromThousandths(arpu_hesapla(r))))

\* Churn rates passed to gelecek_ay_tahmini_yap, in hundredths: the default
\* 0.05, and 0.5
ChurnInputs == {5, 50}

\* payment.gelecek_ay_tahmini_yap(churn / 100)
GelecekAyTahminiYap(pid, churn) ==
    /\ pid \in 1..Len(recs)
    /\ recs[pid].kind = "Membership"
    /\ Len(recs[pid].logs) < MaxLogs
    /\ recs' = [recs EXCEPT ![pid] = add_log(recs[pid], "forecast")]
    /\ last' = Called("gelecek_ay_tahmini_yap", pid, TRUE, 0,
                      gelecek_ay_tahmini_yap(recs[pid], churn), "none")
    /\ UNCHANGED <<storage, indices, max_capacity, audit_log, threads, tier_dicts>>

\* AdRevenuePayment(...) calls: those above and one with a negative number
\* of impressions
AdCtorInputsAll ==
    AdCtorInputs \cup
    { [kind |-> "AdRevenue", channel_id |-> ChA, amount |-> 5000,
       currency |-> UsdLower, period |-> Jan, ad_impressions |-> -5, cpm_rate |-> 5000] }

NextCtor ==
    \/ \E a \in SponsorCtorInputs, hex \in HexInputs : ConstructSponsorship(a, hex)
    \/ \E a \in MemberCtorInputs : ConstructMembership(a)
    \/ \E a \in AdCtorInputsAll : ConstructAd(a)
    \/ \E pid \in Ids : MarkInvoiceSent(pid)
    \/ \E pid \in Ids, taksit_adedi \in TaksitInputs : TaksitPlaniOlustur(pid, taksit_adedi)
    \/ \E pid \in Ids : TeslimatOnayla(pid)
    \/ \E pid \in Ids, churn \in ChurnInputs : GelecekAyTahminiYap(pid, churn)
    \/ \E pid \in Ids, new_status \in StatusInputs : StatusSet(pid, new_status)
    \/ \E pid \in Ids, new_count \in ImpressionInputs :
           /\ pid \in 1..Len(recs)
           /\ recs[pid].kind = "AdRevenue"
           /\ UpdateImpressions(pid, new_count)
    \/ \E pid \in Ids : AddLog(pid)

SpecCtor == InitCtor /\ [][NextCtor]_vars

\* The malformed arguments of a SponsorshipPayment(...) call that the
\* constructor is to correct
Malformed(a) ==
    { f \in {"currency", "period", "contract_id"} :
        \/ f = "currency" /\ Len(a.currency) # 3
        \/ f = "period" /\ ~PeriodMatches(a.period)
        \/ f = "contract_id" /\ ~StartsWith(a.contract_id, CntPrefix)
                             /\ ~StartsWith(a.contract_id, SpPrefix) }

\* C21: a constructor call fails exactly for a negative amount or a channel id
\* shorter than 3 characters; a currency of another length than 3, a period
\* that is not YYYY-MM and a malformed contract id are corrected (currency cut
\* to 3 characters or TRY, the current period, a generated CNT- id), each with
\* a warning in the logs of the object
C21_MalformedInputsCorrected ==
    [][\A a \in SponsorCtorInputs, hex \in HexInputs :
          ConstructSponsorship(a, hex)
          => /\ last'.ok <=> ~(a.amount < 0 \/ Len(Strip(a.channel_id)) < 3)
             /\ last'.ok
                => LET r == recs'[Len(recs')]
                   IN  /\ Len(a.currency) # 3
                          => r.currency = IF a.currency = <<>> THEN TRY
                                          ELSE Upper(Prefix(a.currency, 3))
                       /\ ~PeriodMatches(a.period) => r.period = CurrentPeriod
                       /\ "contract_id" \in Malformed(a)
                          => r.contract_id = CntPrefix \o hex
                       /\ Len(r.logs) = 2 + Cardinality(Malformed(a))]_vars

\* C22: the currency of every constructed object is exactly 3 uppercase letters
C22_CurrencyThreeUppercase ==
    \A pid \in 1..Len(recs) :
        /\ Len(recs[pid].currency) = 3
        /\ \A i \in 1..Len(recs[pid].currency) : InSeq(recs[pid].currency[i], UpperLetters)

----------------------------------------------------------------------------
(* Priority level: callers construct ad revenue payments with amounts at and  *)
(* around the limits of _calculate_initial_priority and assign amounts at     *)
(* and around the limit of the amount setter.                                 *)

\* Amounts 5.0, exactly 1000.0, 1000.001, exactly 10000.0, 10000.001, exactly
\* 100000.0 and 100000.001
PriorityCtorInputs ==
    { [kind |-> "AdRevenue", channel_id |-> ChA, amount |-> v,
       currency |-> TRY, period |-> Jan, ad_impressions |-> 1000, cpm_rate |-> 5000] :
      v \in {5000, PRIORITY_LIMIT_3, PRIORITY_LIMIT_3 + 1, PRIORITY_LIMIT_2,
             PRIORITY_LIMIT_2 + 1,
             PRIORITY_LIMIT_1, PRIORITY_LIMIT_1 + 1} }

\* Values assigned to amount: negative, 10.0, exactly 50000.0, 50000.001
PriorityAmountInputs == {-1000, 10000, HIGH_AMOUNT_LIMIT, HIGH_AMOUNT_LIMIT + 1}

NextPriority ==
    \/ \E a \in PriorityCtorInputs : ConstructAd(a)
    \/ \E pid \in Ids, value \in PriorityAmountInputs : AmountSet(pid, value)
    \/ \E pid \in Ids, new_count \in ImpressionInputs : UpdateImpressions(pid, new_count)
    \/ \E pid \in Ids : AddLog(pid)

SpecPriority == InitRecord /\ [][NextPriority]_vars

\* C23: priority_level is 1 after construction with amount > 100000, 2 with
\* amount > 10000, 3 with amount > 1000, else 4; a successful assignment of an
\* amount above 50000 sets it to 1, one of at most 50000 leaves it as it was;
\* no step moves the level of an object to a larger number
C23_PriorityOnlyEscalates ==
    [][/\ \A a \in PriorityCtorInputs :
             (ConstructAd(a) /\ last'.ok)
             => recs'[Len(recs')].priority_level =
                    (IF a.amount > PRIORITY_LIMIT_1 THEN 1
                     ELSE IF a.amount > PRIORITY_LIMIT_2 THEN 2
                     ELSE IF a.amount > PRIORITY_LIMIT_3 THEN 3
                     ELSE 4)
       /\ \A pid \in Ids, value \in PriorityAmountInputs :
             (AmountSet(pid, value) /\ last'.ok)
             => recs'[pid].priority_level =
                    (IF value > HIGH_AMOUNT_LIMIT THEN 1 ELSE recs[pid].priority_level)
       /\ \A pid \in 1..Len(recs) :
             recs'[pid].priority_level <= recs[pid].priority_level]_vars

\* C23: an object was assigned an amount above 50000 and has just been
\* assigned exactly 50000.0, which left it at level 1
C23_Witness ==
    /\ last.op = "set_amount"
    /\ last.ok
    /\ recs[last.pid].amount = HIGH_AMOUNT_LIMIT
    /\ recs[last.pid].priority_level = 1
    /\ recs[last.pid].logs = <<"created", "initial_amount", "high_amount">>

\* The items of the dict argument t when the constructor is called
ItemsAtCall(t) == IF t.ref = 0 THEN t.items ELSE tier_dicts[t.ref]

\* C24: when a membership payment has been constructed, the tiers it holds sum
\* to its total number of subscribers if the dict passed did not sum to more:
\* a shortfall has been added to the tier "Diger" and the other tiers are as
\* passed, with no warning; a dict that summed to more is as passed, and the
\* only trace is a warning at the end of the logs of the object
C24_TiersSumToSubscribers ==
    [][\A a \in MemberCtorInputs :
          (ConstructMembership(a) /\ last'.ok)
          => LET r      == recs'[Len(recs')]
                 before == ItemsAtCall(a.tier_breakdown)
                 after  == tier_dicts'[r.tier_breakdown]
                 fark   == a.total_subscribers - SumValues(before)
             IN  /\ r.tier_breakdown = DictOf(a.tier_breakdown)
                 /\ r.total_subscribers = a.total_subscribers
                 /\ fark >= 0
                    => /\ SumValues(after) = r.total_subscribers
                       /\ after = (IF fark = 0 THEN before
                                   ELSE DictSet(before, "Diger",
                                                DictGet(before, "Diger", 0) + fark))
                       /\ ~InSeq("tier_surplus_warning", r.logs)
                 /\ fark < 0
                    => /\ after = before
                       /\ SumValues(after) > r.total_subscribers
                       /\ r.logs[Len(r.logs)] = "tier_surplus_warning"
                       /\ Len(SelectSeq(r.logs, LAMBDA m : m = "tier_surplus_warning")) = 1]_vars

\* C24: a second payment, of 20 subscribers, has been constructed with the
\* dict object of the first, which held Gold 4 and Diger 6 by then: the
\* shortfall of 10 was added to its "Diger" tier
C24_Witness ==
    /\ last.op = "construct"
    /\ last.ok
    /\ Len(recs) = 2
    /\ recs[1].kind = "Membership"
    /\ recs[2].kind = "Membership"
    /\ recs[2].tier_breakdown = recs[1].tier_breakdown
    /\ recs[2].total_subscribers = 20
    /\ tier_dicts[recs[2].tier_breakdown]
           = [k \in {"Gold", "Diger"} |-> IF k = "Gold" THEN 4 ELSE 16]

\* C24: a payment has been constructed with a dict that summed to more than
\* its subscribers
C24_WitnessSurplus ==
    /\ last.op = "construct"
    /\ last.ok
    /\ recs[last.pid].kind = "Membership"
    /\ SumValues(tier_dicts[recs[last.pid].tier_breakdown]) > recs[last.pid].total_subscribers
    /\ recs[last.pid].logs[Len(recs[last.pid].logs)] = "tier_surplus_warning"

----------------------------------------------------------------------------
(* Tax of ad revenue payments: callers construct payments with impressions at *)
(* and above the bonus threshold and call calculate_tax.                      *)

\* AdRevenuePayment(...) calls, each with the amounts 5.0 and 7.0:
\* 1000000 and 1000001 impressions at a cpm of 0.001, 26 impressions at 1.0,
\* 1000 impressions at 5.0, 150 impressions at 5.0 (the net income 0.735 is
\* half way between two cents), 187 impressions at 15.0 (the tax 0.495 is)
\* and 100000 impressions at 15.0 (net income 1470.0, tax 264.6)
TaxCtorInputs ==
    { [kind |-> "AdRevenue", channel_id |-> ChA, amount |-> v,
       currency |-> TRY, period |-> Jan, ad_impressions |-> x[1], cpm_rate |-> x[2]] :
      v \in {5000, 7000},
      x \in { <<BONUS_THRESHOLD, 1>>, <<BONUS_THRESHOLD + 1, 1>>, <<26, 1000>>, <<1000, 5000>>,
              <<150, 5000>>, <<187, 15000>>, <<100000, 15000>> } }

\* payment.calculate_tax() on an ad revenue payment
CalculateTax(pid) ==
    /\ pid \in 1..Len(recs)
    /\ Len(recs[pid].logs) < MaxLogs
    /\ recs' = [recs EXCEPT ![pid] = AfterCalculateTax(recs[pid])]
    /\ last' = Called("calculate_tax", pid, TRUE, 0, calculate_tax(recs[pid]), "none")
    /\ UNCHANGED <<storage, indices, max_capacity, audit_log, threads, tier_dicts>>

NextTax ==
    \/ \E a \in TaxCtorInputs : ConstructAd(a)
    \/ \E pid \in Ids : CalculateTax(pid)
    \/ \E pid \in Ids : AddLog(pid)

SpecTax == InitRecord /\ [][NextTax]_vars

\* The net income of the statement: impressions / 1000 * cpm, less 2 % of it,
\* plus 5 % of it above 1000000 impressions
NetEarnings(ad_impressions, cpm_rate) ==
    LET gross == FMul(FDivInt(ad_impressions, 1000), FromThousandths(cpm_rate))
    IN  FAdd(FSub(gross, FMul(gross, FDivInt(2, 100))),
             IF ad_impressions > 1000000 THEN FMul(gross, FDivInt(5, 100)) ELSE FZero)

\* C25 as stated: calculate_tax returns 18 % of impressions / 1000 * cpm less
\* 2 % plus the 5 % bonus above 1000000 impressions, rounded to 2 decimals
C25_TaxOfUnroundedNet ==
    last.op = "calculate_tax"
    => LET r == recs[last.pid]
       IN  last.ret = Round2(FMul(NetEarnings(r.ad_impressions, r.cpm_rate),
                                  FDivInt(18, 100)))

\* C25: calculate_tax returns round(net * 0.18, 2) where net is
\* impressions / 1000 * cpm less 2 % plus the 5 % bonus only above 1000000
\* impressions, itself rounded to 2 decimals; the amount of the payment does
\* not enter
C25_TaxOfRoundedNet ==
    last.op = "calculate_tax"
    => LET r   == recs[last.pid]
           net == Round2(NetEarnings(r.ad_impressions, r.cpm_rate))
       IN  last.ret = Round2(FMul(FromThousandths(net), FDivInt(18, 100)))

\* C25: the tax of 26 impressions at a cpm of 1.0 was just computed: the net
\* income 0.02548 is rounded to 0.03 and taxed 0.01
C25_Witness ==
    /\ last.op = "calculate_tax"
    /\ recs[last.pid].ad_impressions = 26
    /\ recs[last.pid].amount = 7000
    /\ last.ret = 10

----------------------------------------------------------------------------
(* Reading the audit log of the repository (repository.py): the callers       *)
(* save, delete and look up payments and call get_audit_logs.                 *)

\* Limits handed to get_audit_logs
LimitInputs == {0, 1, 2, 10}

\* repo.find_by_id(payment_id)
FindByIdAudited(pid) ==
    /\ Len(audit_log) < MaxAudit
    /\ audit_log' = find_by_id_log(DB, audit_log, pid)
    /\ last' = Called("find_by_id", pid, find_by_id(DB, pid) # 0, 0, find_by_id(DB, pid), "none")
    /\ UNCHANGED <<recs, storage, indices, max_capacity, threads, tier_dicts>>

\* repo.get_audit_logs(limit)
GetAuditLogs(limit) ==
    /\ last' = Called("get_audit_logs", 0, TRUE, 0,
                      [limit |-> limit, entries |-> get_audit_logs(audit_log, limit)], "none")
    /\ UNCHANGED <<recs, storage, indices, max_capacity, audit_log, threads, tier_dicts>>

NextAudit ==
    \/ \E a \in CtorInputs : Construct(a)
    \/ \E pid \in Ids : Save(pid)
    \/ \E pid \in Ids : Delete(pid)
    \/ \E pid \in Ids : FindByIdAudited(pid)
    \/ \E limit \in LimitInputs : GetAuditLogs(limit)

SpecAudit == Init /\ [][NextAudit]_vars

\* min(a, b)
Min(a, b) == IF a < b THEN a ELSE b

\* C26: get_audit_logs(limit) returns the last min(limit, n) entries of the
\* audit log in their order, for every limit >= 0, none for limit 0; a save
\* that succeeds appends one entry, INSERT when the id was absent and UPDATE
\* when it was stored
C26_AuditLogView ==
    /\ [](last.op = "get_audit_logs"
          => LET n == Len(audit_log)
                 k == Min(last.ret.limit, n)
             IN  last.ret.entries = SubSeq(audit_log, n - k + 1, n))
    /\ [][\A pid \in Ids :
             (Save(pid) /\ last'.ok)
             => audit_log' = Append(audit_log,
                                    [op_type   |-> "INFO",
                                     operation |-> IF pid \in StoredIds THEN "UPDATE"
                                                                        ELSE "INSERT",
                                     pid       |-> pid])]_vars

----------------------------------------------------------------------------
\* C27: update_impressions(n) that succeeds has n >= 0, sets ad_impressions to
\* n, the amount to the net income of (n, cpm_rate) and rebuilds the cached
\* metrics from n; one that fails leaves ad_impressions, amount and the cached
\* metrics as they were
C27_UpdateImpressionsAtomic ==
    [][\A pid \in Ids, new_count \in ImpressionInputs :
          UpdateImpressions(pid, new_count)
          => IF last'.ok
             THEN /\ new_count >= 0
                  /\ recs'[pid].ad_impressions = new_count
                  /\ recs'[pid].amount = Round2(NetEarnings(new_count, recs[pid].cpm_rate))
                  /\ recs'[pid].metrik_onbellek.toplam_gosterim = new_count
             ELSE /\ recs'[pid].ad_impressions = recs[pid].ad_impressions
                  /\ recs'[pid].amount = recs[pid].amount
                  /\ recs'[pid].metrik_onbellek = recs[pid].metrik_onbellek]_vars

\* C28: every ad revenue payment has ad_impressions >= 0 and cpm_rate >= 0
C28_AdFieldsNonNegative ==
    \A pid \in 1..Len(recs) :
        recs[pid].kind = "AdRevenue"
        => recs[pid].ad_impressions >= 0 /\ recs[pid].cpm_rate >= 0

----------------------------------------------------------------------------
\* The ids of seq that are in the set keep, in the order of seq
Restrict(seq, keep) == SelectSeq(seq, LAMBDA x : x \in keep)

NoDuplicates(seq) == \A i, j \in 1..Len(seq) : seq[i] = seq[j] => i = j

\* A step from bucket to bucket_ keeps the order of the ids that stay and puts
\* the ids that come in behind them
OrderKept(bucket, bucket_) ==
    bucket_ = Restrict(bucket, ElemsOf(bucket_))
                  \o Restrict(bucket_, ElemsOf(bucket_) \ ElemsOf(bucket))

\* C29: no bucket of the channel, status and period indices holds an id twice;
\* every step keeps the order of the ids of a bucket and appends the ids that
\* enter it, also when a stored record is saved again; find_all_by_channel
\* returns the stored records of a channel in the order of the saves that
\* stored them
C29_BucketsOrderedNoDuplicates ==
    /\ [](/\ \A k \in DOMAIN channel_index : NoDuplicates(channel_index[k])
          /\ \A k \in DOMAIN status_index : NoDuplicates(status_index[k])
          /\ \A k \in DOMAIN period_index : NoDuplicates(period_index[k])
          /\ \A k \in DOMAIN channel_index :
                 find_all_by_channel(DB, k)
                     = SelectSeq(storage, LAMBDA pid : recs[pid].channel = k))
    /\ [][/\ \A k \in DOMAIN channel_index : OrderKept(channel_index[k], IndexGet(channel_index', k))
          /\ \A k \in DOMAIN status_index : OrderKept(status_index[k], IndexGet(status_index', k))
          /\ \A k \in DOMAIN period_index : OrderKept(period_index[k], IndexGet(period_index', k))]_vars

\* C29: a record whose status changed was just saved again (its id is in two
\* status buckets) and two records of one channel are stored
C29_Witness ==
    /\ last.op = "save"
    /\ last.ok
    /\ Cardinality(BucketsOf(status_index, last.pid)) = 2
    /\ \E k \in DOMAIN channel_index : Len(find_all_by_channel(DB, k)) = 2

\* C30: save on a repository that holds the capacity number of records raises
\* CapacityExceeded (MemoryError) for every object, one whose id is stored
\* included, and leaves the stored records and the indices as they were
C30_FullStoreRefusesUpdate ==
    [][\A pid \in Ids :
          (Save(pid) /\ Len(storage) >= max_capacity)
          => /\ last'.exc = "MemoryError"
             /\ ~last'.ok
             /\ UNCHANGED <<recs, storage, indices>>]_vars

\* C30: a full repository just refused the save of a record it already holds
C30_Witness ==
    /\ last.op = "save"
    /\ last.exc = "MemoryError"
    /\ InSeq(last.pid, storage)
    /\ Len(storage) = max_capacity

----------------------------------------------------------------------------
(* The status operations of the service on whole objects: the status setter  *)
(* stamps updated_at and logs the change, and the service logs why it moved   *)
(* the payment.  The callers create payments of the three classes through     *)
(* the service, process them, hold the low ones and update statuses in bulk.  *)

\* The status assignments one payment receives in this part
MaxStatusWrites == 2

\* simulate_payment_processing on whole objects
simulate_payment_processing_objects(db, R, pid, is_success) ==
    IF find_by_id(db, pid) = 0
    THEN [res |-> PaymentProcessResult(FALSE, 0), R |-> R, exc |-> "none"]
    ELSE IF R[pid].status = "completed"
    THEN [res |-> PaymentProcessResult(FALSE, pid), R |-> R, exc |-> "none"]
    ELSE LET new == SimulatedStatus(R[pid], is_success)
             set == status_setter(R[pid], new)
             msg == IF new = "processing" THEN "manual_review"
                    ELSE IF new = "completed" THEN "bank_approved"
                    ELSE "bank_rejected"
         IN  IF set.exc # "none"
             THEN [res |-> PaymentProcessResult(FALSE, 0), R |-> R, exc |-> set.exc]
             ELSE [res |-> PaymentProcessResult(new # "failed", pid),
                   R   |-> [R EXCEPT ![pid] = add_log(set.val, msg)],
                   exc |-> "none"]

\* The loop of hold_low_payments over low_payments[k..] on whole objects
RECURSIVE HoldLoopObjects(_, _, _, _)
HoldLoopObjects(low, k, R, count) ==
    IF k > Len(low) THEN [R |-> R, count |-> count, exc |-> "none"]
    ELSE IF R[low[k]].status = "pending"
    THEN LET set == status_setter(R[low[k]], "on_hold")
         IN  IF set.exc # "none"
             THEN [R |-> R, count |-> count, exc |-> set.exc]
             ELSE HoldLoopObjects(low, k + 1,
                                  [R EXCEPT ![low[k]] = add_log(set.val, "held")],
                                  count + 1)
    ELSE HoldLoopObjects(low, k + 1, R, count)

hold_low_payments_objects(db, R, threshold) ==
    HoldLoopObjects(find_by_amount_range(db, R, HOLD_MIN_AMOUNT, threshold), 1, R, 0)

\* The loop of bulk_status_update over payment_ids[k..] on whole objects
RECURSIVE BulkLoopObjects(_, _, _, _, _, _)
BulkLoopObjects(db, payment_ids, new_status, k, R, success_count) ==
    IF k > Len(payment_ids) THEN [R |-> R, count |-> success_count, exc |-> "none"]
    ELSE IF find_by_id(db, payment_ids[k]) = 0
    THEN BulkLoopObjects(db, payment_ids, new_status, k + 1, R, success_count)
    ELSE LET set == status_setter(R[payment_ids[k]], new_status)
         IN  IF set.exc = "none"
             THEN BulkLoopObjects(db, payment_ids, new_status, k + 1,
                                  [R EXCEPT ![payment_ids[k]] = set.val], success_count + 1)
             ELSE IF BulkCatches(set.exc)
             THEN BulkLoopObjects(db, payment_ids, new_status, k + 1, R, success_count)
             ELSE [R |-> R, count |-> success_count, exc |-> set.exc]

bulk_status_update_objects(db, R, payment_ids, new_status) ==
    BulkLoopObjects(db, payment_ids, new_status, 1, R, 0)

\* A sponsorship payment of 60000.0, a membership payment of 50.0 and an ad
\* revenue payment of 50.0
FrameCtorInputs ==
    { [kind |-> "Sponsorship", channel_id |-> ChA, amount |-> 60000000,
       currency |-> TRY, period |-> Jan],
      [kind |-> "Membership",  channel_id |-> ChBPadded, amount |-> 50000,
       currency |-> UsdLower, period |-> Feb],
      [kind |-> "AdRevenue",   channel_id |-> ChA, amount |-> 50000,
       currency |-> TRY, period |-> Jan, ad_impressions |-> 1000, cpm_rate |-> 5000] }

\* Statuses handed to bulk_status_update; "archived" is no status
FrameBulkStatusInputs == {"pending", "cancelled", "archived"}

\* No payment has used up its status assignments
StatusWritesLeft == \A pid \in 1..Len(recs) : recs[pid].updated_at < MaxStatusWrites

\* service.simulate_payment_processing(payment_id), for any id and either draw
SimulateObjects(pid, is_success) ==
    /\ StatusWritesLeft
    /\ AuditRoom(find_by_id_log(DB, audit_log, pid))
    /\ LET r == simulate_payment_processing_objects(DB, recs, pid, is_success)
       IN  /\ recs' = r.R
           /\ audit_log' = find_by_id_log(DB, audit_log, pid)
           /\ last' = Called("simulate", pid, r.res.success, r.res.transaction_id, 0, r.exc)
    /\ UNCHANGED <<storage, indices, max_capacity, threads, tier_dicts>>

\* service.hold_low_payments(threshold)
HoldObjects(threshold) ==
    /\ StatusWritesLeft
    /\ LET h == hold_low_payments_objects(DB, recs, threshold)
       IN  /\ recs' = h.R
           /\ last' = Called("hold", 0, h.exc = "none", 0, h.count, h.exc)
    /\ UNCHANGED <<storage, indices, max_capacity, audit_log, threads, tier_dicts>>

\* service.bulk_status_update(payment_ids, new_status)
BulkObjects(payment_ids, new_status) ==
    /\ StatusWritesLeft
    /\ AuditRoom(BulkLoopLog(DB, payment_ids, new_status, 1, audit_log))
    /\ LET b == bulk_status_update_objects(DB, recs, payment_ids, new_status)
       IN  /\ recs' = b.R
           /\ audit_log' = BulkLoopLog(DB, payment_ids, new_status, 1, audit_log)
           /\ last' = Called("bulk", 0, b.exc = "none", 0, b.count, b.exc)
    /\ UNCHANGED <<storage, indices, max_capacity, threads, tier_dicts>>

NextFrame ==
    \/ \E a \in FrameCtorInputs : ConstructPayment(a)
    \/ \E pid \in Ids : CreatePaymentRecord(pid)
    \/ \E pid \in Ids, is_success \in BOOLEAN : SimulateObjects(pid, is_success)
    \/ \E threshold \in HoldThresholdInputs : HoldObjects(threshold)
    \/ \E payment_ids \in BulkIdInputs, new_status \in FrameBulkStatusInputs :
           BulkObjects(payment_ids, new_status)

SpecFrame == InitReport /\ [][NextFrame]_vars

\* The fields of a payment object the status operations may write
StatusFields == {"status", "updated_at", "logs"}

\* One of the three status operations of the service is called
StatusOperation ==
    \/ \E pid \in Ids, is_success \in BOOLEAN : SimulateObjects(pid, is_success)
    \/ \E threshold \in HoldThresholdInputs : HoldObjects(threshold)
    \/ \E payment_ids \in BulkIdInputs, new_status \in FrameBulkStatusInputs :
           BulkObjects(payment_ids, new_status)

\* C31: simulate_payment_processing, hold_low_payments and bulk_status_update
\* write only status, updated_at and logs of payment objects: the objects stay
\* the same in number and position (their ids), every other field of every
\* object (channel, period, currency, amount, priority, payload) keeps its
\* value, and the repository holds the same ids afterwards
C31_StatusOperationsFrame ==
    [][StatusOperation
       => /\ storage' = storage
          /\ Len(recs') = Len(recs)
          /\ \A pid \in 1..Len(recs) :
                /\ DOMAIN recs'[pid] = DOMAIN recs[pid]
                /\ \A f \in DOMAIN recs[pid] \ StatusFields :
                      recs'[pid][f] = recs[pid][f]]_vars

\* C31: two payments are stored; bulk_status_update wrote the status of one of
\* them and hold_low_payments just moved it, and simulate_payment_processing
\* put the other one under manual review
C31_Witness ==
    /\ last.op = "hold"
    /\ last.ret = 1
    /\ Len(storage) = 2
    /\ \E pid \in StoredIds : /\ recs[pid].status = "on_hold"
                              /\ recs[pid].updated_at = 2
                              /\ InSeq("held", recs[pid].logs)
    /\ \E pid \in StoredIds : /\ recs[pid].status = "processing"
                              /\ InSeq("manual_review", recs[pid].logs)

\* C32: simulate_payment_processing changes the status only of records that
\* are pending or processing: a stored record that is on_hold, cancelled or
\* refunded is never moved to processing, completed or failed by it
C32_SimulateOnlyPendingOrProcessing ==
    [][\A pid \in Ids, is_success \in BOOLEAN :
          (/\ SimulateObjects(pid, is_success)
           /\ pid \in StoredIds
           /\ recs[pid].status \in {"on_hold", "cancelled", "refunded"})
          => recs'[pid].status \notin {"processing", "completed", "failed"}]_vars

----------------------------------------------------------------------------
(* Retrying: the callers create payments through the service and call        *)
(* simulate_payment_processing on them again and again, without end; nothing  *)
(* else writes a payment.  Every call on a stored id appends a READ entry to  *)
(* the audit log, which no code of simulate_payment_processing reads; of the  *)
(* log of such a run the state holds the part get_audit_logs(MaxAudit)        *)
(* returns, its last MaxAudit entries.  The calls on every id are scheduled   *)
(* fairly (weak fairness of the call), and the draw random.random() > 0.15    *)
(* does not fail forever: of the calls on an id that reach the draw, one      *)
(* draws success (strong fairness of that step).                              *)

\* service.simulate_payment_processing(payment_id) in a run of any length
SimulateAgain(pid, is_success) ==
    /\ LET r == RevenueService_simulate_payment_processing(DB, recs, pid, is_success)
       IN  /\ recs' = r.R
           /\ audit_log' = get_audit_logs(find_by_id_log(DB, audit_log, pid), MaxAudit)
           /\ last' = Called("simulate", pid, r.res.success, r.res.transaction_id, 0, r.exc)
    /\ UNCHANGED <<storage, indices, max_capacity, threads, tier_dicts>>

NextRetry ==
    \/ \E a \in SimCtorInputs : Construct(a)
    \/ \E pid \in Ids : CreatePaymentRecord(pid)
    \/ \E pid \in Ids, is_success \in BOOLEAN : SimulateAgain(pid, is_success)

\* simulate_payment_processing(pid) gets as far as its draw: the id is stored,
\* the record is not completed and does not take the manual-review branch
ReachesDraw(pid) ==
    /\ pid \in StoredIds
    /\ recs[pid].status # "completed"
    /\ ~(recs[pid].amount > MANUAL_REVIEW_LIMIT /\ recs[pid].status # "processing")

\* A call on pid that draws success
DrawsSuccess(pid) == ReachesDraw(pid) /\ SimulateAgain(pid, TRUE)

\* Some call on pid
SimulateCalled(pid) == \E is_success \in BOOLEAN : SimulateAgain(pid, is_success)

SpecRetry ==
    /\ InitSim
    /\ [][NextRetry]_vars
    /\ \A pid \in Ids : WF_vars(SimulateCalled(pid))
    /\ \A pid \in Ids : SF_vars(DrawsSuccess(pid))

\* The status of the object constructed at position pid, "none" before that
StatusOf(pid) == IF pid \in 1..Len(recs) THEN recs[pid].status ELSE "none"

\* C33: under repeated calls of simulate_payment_processing with a fair draw,
\* every stored record comes to status completed, however many calls it
\* takes, a record whose last outcome was failed included; and a completed
\* record stays completed.  Step by step: a call on a stored record keeps it
\* stored; one that does not reach the draw (a payment above 50000 that is
\* not processing) leaves the record where the next call reaches it; a call
\* that draws success completes the record, and a failed draw sets failed
C33_EventuallyCompleted ==
    /\ \A pid \in Ids : (pid \in StoredIds) ~> (StatusOf(pid) = "completed")
    /\ \A pid \in Ids :
          (pid \in StoredIds /\ StatusOf(pid) = "failed") ~> (StatusOf(pid) = "completed")
    /\ \A pid \in Ids :
          [](StatusOf(pid) = "completed" => [](StatusOf(pid) = "completed"))
    /\ [][\A pid \in Ids, is_success \in BOOLEAN :
             (SimulateAgain(pid, is_success) /\ pid \in StoredIds)
             => /\ pid \in StoredIds'
                /\ (StatusOf(pid) # "completed" /\ ~ReachesDraw(pid)) => ReachesDraw(pid)'
                /\ (ReachesDraw(pid) /\ is_success) => StatusOf(pid)' = "completed"
                /\ (ReachesDraw(pid) /\ ~is_success) => StatusOf(pid)' = "failed"]_vars

\* C33: a call just completed a stored payment while the last outcome of the
\* other stored payment is failed
C33_Witness ==
    /\ last.op = "simulate"
    /\ last.ok
    /\ last.pid \in StoredIds
    /\ recs[last.pid].status = "completed"
    /\ \E pid \in StoredIds : recs[pid].status = "failed"

----------------------------------------------------------------------------
(* Concurrency: the repository takes no lock (get_db_info reports             *)
(* is_thread_safe False).  After a single-threaded set-up, repo.save(payment) *)
(* and repo.delete(payment.payment_id) are called from two threads.  A step   *)
(* of a thread is one line of save, _update_indices, delete and               *)
(* _remove_from_index that reads or writes the repository; the position of a  *)
(* thread is the line it executes next (L26 is line 26 of repository.py).     *)
(* The lines 42, 45 and 48 are two steps each: the interpreter fetches the    *)
(* bucket index[key], calls the getter of the property payment.payment_id,    *)
(* where the other thread may run, and then appends to the list it fetched,   *)
(* be it still the bucket of the index or not.  The lines 34 to 36 of save,   *)
(* which compute the log message from the local is_update, go with line 37.   *)
(* The scheduler picks the thread of every step.                              *)

\* Payments of two channels and two periods
ThreadCtorInputs ==
    { [kind |-> "Sponsorship", channel_id |-> ChA, amount |-> 50000,
       currency |-> TRY, period |-> Jan],
      [kind |-> "AdRevenue",   channel_id |-> ChBPadded, amount |-> 50000,
       currency |-> TRY, period |-> Feb] }

ThreadsIdle == threads = NoThreads

\* A thread is between its first and its last statement
Midway(pc, first) == pc \notin {"idle", first, "done"}

\* Every index holds the id only in the bucket of the key the object has now
InStep(pid) ==
    /\ BucketsOf(channel_index, pid) \subseteq {recs[pid].channel}
    /\ BucketsOf(status_index, pid) \subseteq {recs[pid].status}
    /\ BucketsOf(period_index, pid) \subseteq {recs[pid].period}

\* The two threads are created for the payment object pid
StartThreads(pid) ==
    /\ ThreadsIdle
    /\ pid \in 1..Len(recs)
    /\ Len(audit_log) + 2 <= MaxAudit
    /\ threads' = [NoThreads EXCEPT !.pid = pid, !.save = "L26", !.delete = "L98",
                                    !.in_step = InStep(pid)]
    /\ last' = Called("start_threads", pid, TRUE, 0, 0, "none")
    /\ UNCHANGED <<recs, storage, indices, max_capacity, audit_log, tier_dicts>>

\* self._channel_index, self._status_index, self._period_index
TheIndex(i) ==
    IF i = 1 THEN channel_index ELSE IF i = 2 THEN status_index ELSE period_index

\* payment.channel_id, payment.status, payment.period
KeyAt(i, r) == IF i = 1 THEN r.channel ELSE IF i = 2 THEN r.status ELSE r.period

\* The index i takes the value v
IndexBecomes(i, v) ==
    /\ channel_index' = IF i = 1 THEN v ELSE channel_index
    /\ status_index' = IF i = 2 THEN v ELSE status_index
    /\ period_index' = IF i = 3 THEN v ELSE period_index

\* The defaultdict index after the access index[key]: a missing bucket is
\* created empty
DefaultGet(index, key) ==
    [k \in (DOMAIN index) \cup {key} |-> IF k \in DOMAIN index THEN index[k] ELSE <<>>]

\* The lines of _update_indices that test the three indices, those that
\* append, and the line that follows each pair
TestLine == <<"L41", "L44", "L47">>

AppendLine == <<"L42", "L45", "L48">>

AfterLine == <<"L44", "L47", "L37">>

\* The next line of the thread in save(payment)
SaveThreadStep ==
    LET pid  == threads.pid
        pc   == threads.save
        over == threads.overlapped \/ Midway(threads.delete, "L98")
        to(next) == [threads EXCEPT !.save = next, !.overlapped = over]
    IN  /\ pc \notin {"idle", "done"}
        /\ \/ /\ pc = "L26"
              /\ threads' = to(IF Len(storage) >= max_capacity THEN "L27" ELSE "L30")
              /\ UNCHANGED <<storage, indices, audit_log>>
           \/ /\ pc = "L27"
              /\ audit_log' = _log_operation(audit_log, "ERROR", "capacity", 0)
              /\ threads' = to("L28")
              /\ UNCHANGED <<storage, indices>>
           \/ /\ pc = "L28"
              /\ threads' = [to("done") EXCEPT !.save_exc = "MemoryError"]
              /\ UNCHANGED <<storage, indices, audit_log>>
           \/ /\ pc = "L30"
              /\ threads' = [to("L31") EXCEPT !.is_update = InSeq(pid, storage)]
              /\ UNCHANGED <<storage, indices, audit_log>>
           \/ /\ pc = "L31"
              /\ storage' = IF InSeq(pid, storage) THEN storage ELSE Append(storage, pid)
              /\ threads' = to("L41")
              /\ UNCHANGED <<indices, audit_log>>
           \/ \E i \in 1..3 :
                 /\ pc = TestLine[i]
                 /\ IndexBecomes(i, DefaultGet(TheIndex(i), KeyAt(i, recs[pid])))
                 /\ threads' = to(IF InSeq(pid, IndexGet(TheIndex(i), KeyAt(i, recs[pid])))
                                  THEN AfterLine[i] ELSE AppendLine[i])
                 /\ UNCHANGED <<storage, audit_log>>
           \/ \E i \in 1..3 :
                 /\ pc = AppendLine[i]
                 /\ threads.save_bucket = "none"
                 /\ IndexBecomes(i, DefaultGet(TheIndex(i), KeyAt(i, recs[pid])))
                 /\ threads' = [to(pc) EXCEPT !.save_bucket = "in_index"]
                 /\ UNCHANGED <<storage, audit_log>>
           \/ \E i \in 1..3 :
                 /\ pc = AppendLine[i]
                 /\ threads.save_bucket # "none"
                 /\ IndexBecomes(i, IF threads.save_bucket = "in_index"
                                    THEN [TheIndex(i) EXCEPT ![KeyAt(i, recs[pid])] =
                                                                 Append(@, pid)]
                                    ELSE TheIndex(i))
                 /\ threads' = [to(AfterLine[i]) EXCEPT !.save_bucket = "none"]
                 /\ UNCHANGED <<storage, audit_log>>
           \/ /\ pc = "L37"
              /\ audit_log' = _log_operation(audit_log, "INFO",
                                             IF threads.is_update THEN "UPDATE" ELSE "INSERT",
                                             pid)
              /\ threads' = to("done")
              /\ UNCHANGED <<storage, indices>>
        /\ last' = Called("save_step", pid, threads'.save_exc = "none", 0, 0, threads'.save_exc)
        /\ UNCHANGED <<recs, max_capacity, tier_dicts>>

\* delete going on to line 105 after its first call of _remove_from_index
RemoveReturns_SkipsCalls(t) == [t EXCEPT !.delete = "L105"]

\* The threads t when line 115 has deleted the bucket of index i: a bucket
\* of that index that the thread of save has fetched in its line 42, 45 or 48
\* is a list the index no longer holds
BucketDeleted(t, i) ==
    IF t.save = AppendLine[i] /\ t.save_bucket = "in_index"
    THEN [t EXCEPT !.save_bucket = "detached"]
    ELSE t

\* The thread t of delete when _remove_from_index returns from the call of
\* line 101, 102 or 103
RemoveReturns(t) ==
    IF t.delete_call < 3
    THEN [t EXCEPT !.delete = "L111", !.delete_call = @ + 1]
    ELSE [t EXCEPT !.delete = "L105"]

\* The next line of the thread in delete(payment_id); in the lines 111 to 115
\* of _remove_from_index, delete_call tells which of the calls of the lines
\* 101 to 103 is running
DeleteThreadStep ==
    LET pid  == threads.pid
        pc   == threads.delete
        i    == threads.delete_call
        key  == KeyAt(i, recs[pid])
        over == threads.overlapped \/ Midway(threads.save, "L26")
        to(next) == [threads EXCEPT !.delete = next, !.overlapped = over]
    IN  /\ pc \notin {"idle", "done"}
        /\ \/ /\ pc = "L98"
              /\ threads' = to(IF InSeq(pid, storage) THEN "L99" ELSE "L108")
              /\ UNCHANGED <<storage, indices, audit_log>>
           \/ /\ pc = "L99"
              /\ InSeq(pid, storage)
              /\ threads' = [to("L111") EXCEPT !.delete_call = 1]
              /\ UNCHANGED <<storage, indices, audit_log>>
           \/ /\ pc = "L111"
              /\ threads' = IF key \in DOMAIN TheIndex(i) THEN to("L112")
                            ELSE RemoveReturns(to(pc))
              /\ UNCHANGED <<storage, indices, audit_log>>
           \/ /\ pc = "L112"
              /\ IndexBecomes(i, DefaultGet(TheIndex(i), key))
              /\ threads' = to(IF InSeq(pid, IndexGet(TheIndex(i), key)) THEN "L113"
                               ELSE "L114")
              /\ UNCHANGED <<storage, audit_log>>
           \/ /\ pc = "L113"
              /\ InSeq(pid, IndexGet(TheIndex(i), key))
              /\ IndexBecomes(i, [TheIndex(i) EXCEPT ![key] = RemoveFirst(@, pid)])
              /\ threads' = to("L114")
              /\ UNCHANGED <<storage, audit_log>>
           \/ /\ pc = "L114"
              /\ IndexBecomes(i, DefaultGet(TheIndex(i), key))
              /\ threads' = IF IndexGet(TheIndex(i), key) = <<>> THEN to("L115")
                            ELSE RemoveReturns(to(pc))
              /\ UNCHANGED <<storage, audit_log>>
           \/ /\ pc = "L115"
              /\ key \in DOMAIN TheIndex(i)
              /\ IndexBecomes(i, [k \in (DOMAIN TheIndex(i)) \ {key} |-> TheIndex(i)[k]])
              /\ threads' = RemoveReturns(BucketDeleted(to(pc), i))
              /\ UNCHANGED <<storage, audit_log>>
           \/ /\ pc = "L105"
              /\ InSeq(pid, storage)
              /\ storage' = RemoveFirst(storage, pid)
              /\ threads' = to("L106")
              /\ UNCHANGED <<indices, audit_log>>
           \/ /\ pc = "L106"
              /\ audit_log' = _log_operation(audit_log, "DELETE", "DELETE", pid)
              /\ threads' = to("L107")
              /\ UNCHANGED <<storage, indices>>
           \/ /\ pc = "L107"
              /\ threads' = [to("done") EXCEPT !.delete_ret = TRUE]
              /\ UNCHANGED <<storage, indices, audit_log>>
           \/ /\ pc = "L108"
              /\ threads' = to("done")
              /\ UNCHANGED <<storage, indices, audit_log>>
        /\ last' = Called("delete_step", pid, threads'.delete_ret, 0, 0, "none")
        /\ UNCHANGED <<recs, max_capacity, tier_dicts>>

NextThreads ==
    \/ \E a \in ThreadCtorInputs : ThreadsIdle /\ Construct(a)
    \/ \E pid \in Ids : ThreadsIdle /\ Save(pid)
    \/ \E pid \in Ids, is_success \in BOOLEAN :
           ThreadsIdle /\ SimulatePaymentProcessing(pid, is_success)
    \/ \E pid \in Ids : StartThreads(pid)
    \/ SaveThreadStep
    \/ DeleteThreadStep

SpecThreads == InitSim /\ [][NextThreads]_vars

\* Both threads have returned
ThreadsFinished == threads.save = "done" /\ threads.delete = "done"

\* No bucket of an index holds an id that storage does not hold
NoDanglingIds ==
    /\ \A k \in DOMAIN channel_index : ElemsOf(channel_index[k]) \subseteq StoredIds
    /\ \A k \in DOMAIN status_index : ElemsOf(status_index[k]) \subseteq StoredIds
    /\ \A k \in DOMAIN period_index : ElemsOf(period_index[k]) \subseteq StoredIds

    /\ threads.save_exc = "none"
    /\ threads.delete_ret
    /\ Len(storage) = 1

====
